---- MODULE Spec2Model ----
(***************************************************************************)
(* Forester epoch lifecycle engine (forester/src/epoch_manager.rs) and     *)
(* rollover trigger (forester/src/rollover/operations.rs).                 *)
(*                                                                         *)
(* Spec        : the Epoch Manager (monitor_epochs, run) and the Epoch     *)
(*               Controllers it spawns (process_epoch and its phases), in  *)
(*               runs where no queue update arrives before the active      *)
(*               phase ends.                                               *)
(* SpecWork    : one Epoch Controller from its spawn to its end, with the  *)
(*               detached drainers its react loop spawns; process_queue at *)
(*               the granularity of its chunk tasks.                       *)
(* FairWork    : SpecWork with the fairness the tokio scheduler and an     *)
(*               advancing chain give; queue updates are the environment's *)
(*               and are not forced.                                       *)
(***************************************************************************)
EXTENDS Integers, Sequences, FiniteSets, TLC

VARIABLES
    slot,       \* the chain's slot, as rpc.get_slot() returns it
    est,        \* SlotTracker::estimated_current_slot()
    mon,        \* monitor_epochs: its position and its local last_epoch
    chan,       \* the epoch channel of run (mpsc tx -> rx)
    run_pc,     \* EpochManager::run: "loop" or "returned"
    ctl,        \* the spawned process_epoch tasks, in spawn order
    counter,    \* processed_items_per_epoch_count
    signed,     \* per epoch: batches for which Ok(Some(signature)) was returned
    reports,    \* what was sent on work_report_sender
    drains,     \* the detached process_queue tasks of the react loop (ctl = 0: not spawned)
    config,     \* ForesterConfig
    pq,         \* SpecDrain: the process_queue call
    tasks,      \* SpecDrain: its chunk tasks, each with the batch tasks it spawned
    schedule,   \* SpecDrain: TreeForesterSchedule.slots of the call's tree
    sweep,      \* SpecRollover: the rollover sweep of one controller
    tk,         \* SpecPool: per task, where it is and the connections it holds
    mutex,      \* SpecPool: the task that holds the indexer's Mutex, or "none"
    pool,       \* SpecPool: connections the RPC pool can still hand out
    svc,        \* SpecService: run_service, its retry loop and its result
    ck,         \* SpecChunks: the chunking of the items of the queues into transactions
    iq,         \* SpecItems: a queue's items and the detached calls that fetched them
    esc         \* SpecEscrow: one process_close_escrow call

\* the forester's own state
core == <<slot, est, mon, chan, run_pc, ctl, counter, signed, reports, drains, config,
          pq, tasks, schedule, sweep, tk, mutex, pool>>

vars == <<core, svc, ck, iq, esc>>

\* what the epoch-level actions leave alone
otherE == <<config, pq, tasks, schedule, sweep, tk, mutex, pool, svc, ck, iq, esc>>

\* what the actions of one process_queue call leave alone
otherD == <<mon, chan, run_pc, ctl, reports, drains, config, schedule, sweep, tk, mutex, pool,
            svc, ck, iq, esc>>

\* what the rollover sweep leaves alone
otherR == <<slot, est, mon, chan, run_pc, ctl, counter, signed, reports, drains, config,
            pq, tasks, schedule, tk, mutex, pool, svc, ck, iq, esc>>

\* what the tasks of SpecPool leave alone
otherP == <<slot, est, mon, chan, run_pc, ctl, counter, signed, reports, drains, config,
            pq, tasks, schedule, sweep, svc, ck, iq, esc>>

(***************************************************************************)
(* Bounds of the model.                                                    *)
(***************************************************************************)
MaxEpoch == 1       \* the monitor announces epochs 0 .. MaxEpoch
MaxDrift == 1       \* |estimated slot - chain slot| is at most this
MaxSpawn == 2       \* controllers one run spawns
MaxUpdates == 2     \* queue updates that spawn a drainer, in one run
NumTrees == 2       \* trees (and queues) the forester manages
MaxItems == 1       \* items one fetch of a queue returns, per call of a controller

(***************************************************************************)
(* ProtocolConfig and the phases of an epoch (light_registry, spec 3):     *)
(* consecutive half-open phases; the registration phase of epoch e+1       *)
(* overlaps the active phase of epoch e.                                   *)
(***************************************************************************)
RegistrationPhaseLength == 1
ActivePhaseLength == 2
ReportWorkPhaseLength == 1

GetEpochPhases(e) ==
    LET rs == e * ActivePhaseLength
        re == rs + RegistrationPhaseLength
        ae == re + ActivePhaseLength
    IN [registration |-> [start |-> rs, end |-> re],
        active       |-> [start |-> re, end |-> ae],
        report_work  |-> [start |-> ae, end |-> ae + ReportWorkPhaseLength]]

GetCurrentEpoch(s) == s \div ActivePhaseLength

\* Err while no epoch is active yet, else the epoch whose active phase holds s.
GetCurrentActiveEpoch(s) ==
    IF s < RegistrationPhaseLength THEN -1
    ELSE (s - RegistrationPhaseLength) \div ActivePhaseLength

\* variant: the end of the active phase is not looked at
IsPastActiveStart(s, e) ==
    IF s >= GetEpochPhases(e).active.start THEN "true" ELSE "false"

\* is_in_active_phase: "err" | "true" | "false".
IsInActivePhase(s, e) ==
    IF GetCurrentActiveEpoch(s) = -1 THEN "err"
    ELSE IF GetCurrentActiveEpoch(s) # e THEN "false"
    ELSE "true"

\* The chain advances until every announced epoch can have been reported.
MaxSlot == GetEpochPhases(MaxEpoch).report_work.start + MaxDrift

Epochs == 0 .. MaxEpoch


\* What the slot tracker may estimate when the chain is at slot s.
EstimateWindow(s) == { x \in (s - MaxDrift) .. (s + MaxDrift) : x >= 0 }

(***************************************************************************)
(* Records.                                                                *)
(***************************************************************************)
NoDrain == [pc |-> "idle", waiting |-> 0, running |-> 0, inflight |-> 0, res |-> "none"]

\* late: the slot read at registration was at or past registration.end;
\* registered, reported, sent: registration transactions, report_work
\* transactions and WorkReports of the task
NewCtl(e) == [epoch |-> e, pc |-> "register", tree |-> 0, call |-> NoDrain,
              err |-> "none", late |-> FALSE, registered |-> 0, reported |-> 0, sent |-> 0]

\* known: the queue is that of a tree of the epoch; phase: what the call's
\* active-phase check returned; fetched: the queue's items were fetched
NoCall == [pc |-> "idle", epoch |-> 0, res |-> "none", received |-> 0,
           known |-> TRUE, phase |-> "none", fetched |-> FALSE]

NoSweep == [pc |-> "idle", tree |-> 0, checked |-> <<>>]

\* SpecPool's tasks: a process_queue call, a chunk task of it, a batch task of
\* that, and the rollover sweep of a controller.  conns: pool connections
\* held; n: items or trees still to go; ops: indexer operations done under
\* the Mutex guard the task holds
TaskIds == {"queue", "work", "batch", "sweep"}

NoTask == [pc |-> "idle", conns |-> 0, n |-> 0, ops |-> 0, res |-> "none",
           tries |-> 0, confirmed |-> FALSE]

NoTasks == [t \in TaskIds |-> NoTask]

\* run_service, the chunking, the queue's items and the escrow program, where
\* they are not looked at
NoService == [pc |-> "idle"]

NoChunks == [pc |-> "idle"]

NoItems == [pc |-> "idle"]

NoEscrow == [pc |-> "idle"]

NumChunks(n) == (n + config.indexer_batch_size - 1) \div config.indexer_batch_size

(***************************************************************************)
(* Initial state: EpochManager::new, then run spawns monitor_epochs.       *)
(***************************************************************************)
EpochConfig ==
    [indexer_batch_size |-> 1, indexer_max_concurrent_batches |-> 1,
     transaction_batch_size |-> 1, transaction_max_concurrent_batches |-> 1,
     max_retries |-> 1]

Init ==
    /\ slot = 0
    /\ est \in EstimateWindow(0)
    /\ mon = [last_epoch |-> -1, target |-> 0, retried |-> FALSE, exited |-> FALSE]
    /\ chan = <<>>
    /\ run_pc = "loop"
    /\ ctl = <<>>
    /\ counter = [e \in Epochs |-> 0]
    /\ signed = [e \in Epochs |-> 0]
    /\ reports = <<>>
    /\ drains = <<>>
    /\ config = EpochConfig
    /\ pq = NoCall /\ tasks = <<>> /\ schedule = <<>> /\ sweep = NoSweep
    /\ tk = NoTasks /\ mutex = "none" /\ pool = 0
    /\ svc = NoService /\ ck = NoChunks /\ iq = NoItems /\ esc = NoEscrow

(***************************************************************************)
(* The chain advances; the slot tracker's estimate follows within its      *)
(* drift.                                                                  *)
(***************************************************************************)
Tick ==
    /\ slot < MaxSlot
    /\ slot' = slot + 1
    /\ est' \in EstimateWindow(slot + 1)
    /\ UNCHANGED <<mon, chan, run_pc, ctl, counter, signed, reports, drains, otherE>>

(***************************************************************************)
(* monitor_epochs.                                                         *)
(***************************************************************************)
\* variant: the epoch need not be past last_epoch
ShouldEmitAgain(last, cur, s) == s < GetEpochPhases(cur).registration.end

\* variant: the end of the registration phase is not looked at
ShouldEmitLate(last, cur, s) == last = -1 \/ cur > last

\* line 145-148: a new epoch is announced when it is past last_epoch and its
\* registration phase is still open.
ShouldEmit(last, cur, s) ==
    /\ (last = -1 \/ cur > last)
    /\ s < GetEpochPhases(cur).registration.end

\* One iteration of the loop, from the return of the previous wait (Ok, or Err
\* and `continue`) to the next wait: read the estimate, announce the epoch,
\* take a connection (`?`).
\* retried: an iteration has followed a wait that failed (the estimate had
\* not reached the slot waited for).
MonitorEpochs ==
    /\ ~mon.exited
    /\ LET cur == GetCurrentEpoch(est)
           emit == ShouldEmit(mon.last_epoch, cur, est)
           last == IF emit THEN cur ELSE mon.last_epoch
           again == mon.retried \/ est < mon.target
       IN /\ emit => (cur <= MaxEpoch /\ Len(ctl) + Len(chan) < MaxSpawn)
          /\ chan' = IF emit THEN Append(chan, cur) ELSE chan
          /\ \/ mon' = [last_epoch |-> last, exited |-> FALSE, retried |-> again,
                        target |-> GetEpochPhases(cur + 1).registration.start]
             \/ mon' = [mon EXCEPT !.last_epoch = last, !.retried = again, !.exited = TRUE]
    /\ UNCHANGED <<slot, est, run_pc, ctl, counter, signed, reports, drains, otherE>>

(***************************************************************************)
(* run: one detached process_epoch per received epoch.                     *)
(***************************************************************************)
RunRecv ==
    /\ run_pc = "loop"
    /\ chan # <<>>
    /\ ctl' = Append(ctl, NewCtl(Head(chan)))
    /\ chan' = Tail(chan)
    /\ UNCHANGED <<slot, est, mon, run_pc, counter, signed, reports, drains, otherE>>

\* rx.recv() yields None once the monitor has dropped tx
RunReturn ==
    /\ run_pc = "loop"
    /\ chan = <<>>
    /\ mon.exited
    /\ run_pc' = "returned"
    /\ UNCHANGED <<slot, est, mon, chan, ctl, counter, signed, reports, drains, otherE>>

(***************************************************************************)
(* process_queue, at the granularity of its chunk tasks.  A call is a      *)
(* record; h names where it lives: <<"ctl", c>> is the call the initial    *)
(* drain of controller c awaits, <<"det", d>> the detached call d.         *)
(***************************************************************************)
Handles == {<<"ctl", c>> : c \in DOMAIN ctl} \cup
           {<<"det", d>> : d \in {x \in DOMAIN drains : drains[x].ctl # 0}}

CallOf(h) == IF h[1] = "ctl" THEN ctl[h[2]].call ELSE drains[h[2]].call

OwnerOf(h) == IF h[1] = "ctl" THEN h[2] ELSE drains[h[2]].ctl

EpochOf(h) == ctl[OwnerOf(h)].epoch

SetCall(h, r) ==
    IF h[1] = "ctl"
    THEN ctl' = [ctl EXCEPT ![h[2]].call = r] /\ UNCHANGED drains
    ELSE drains' = [drains EXCEPT ![h[2]].call = r] /\ UNCHANGED ctl

Returned(res) == [NoDrain EXCEPT !.pc = "done", !.res = res]

\* chunk tasks of a call that hold a permit of its semaphore
InFlightChunks(r) == r.running + r.inflight

\* line 547: a chunk task obtains a permit of the semaphore of its call
PermitAvailable(r) == InFlightChunks(r) < config.indexer_max_concurrent_batches

\* lines 500-576: slot read, active-phase check, fetch, one task per chunk
ProcessQueueStart(h) ==
    /\ CallOf(h).pc = "start"
    /\ \/ SetCall(h, Returned("err"))
       \/ /\ IsInActivePhase(slot, EpochOf(h)) = "false"
          /\ SetCall(h, Returned("ok"))
       \/ /\ IsInActivePhase(slot, EpochOf(h)) = "true"
          /\ \E n \in 0 .. MaxItems :
               SetCall(h, IF n = 0 THEN Returned("ok")
                          ELSE [NoDrain EXCEPT !.pc = "collect", !.waiting = NumChunks(n)])
    /\ UNCHANGED <<slot, est, mon, chan, run_pc, counter, signed, reports, otherE>>

\* lines 546-561: a spawned chunk task gets its permit and enters process_work_items
ChunkAcquire(h) ==
    /\ CallOf(h).pc = "collect"
    /\ CallOf(h).waiting > 0
    /\ PermitAvailable(CallOf(h))
    /\ SetCall(h, [CallOf(h) EXCEPT !.waiting = @ - 1, !.running = @ + 1])
    /\ UNCHANGED <<slot, est, mon, chan, run_pc, counter, signed, reports, otherE>>

\* lines 669-674, 916-934: in the active phase the task's batch is submitted
ChunkSubmit(h) ==
    /\ CallOf(h).running > 0
    /\ IsInActivePhase(slot, EpochOf(h)) = "true"
    /\ SetCall(h, [CallOf(h) EXCEPT !.running = @ - 1, !.inflight = @ + 1])
    /\ UNCHANGED <<slot, est, mon, chan, run_pc, counter, signed, reports, otherE>>

\* lines 864-871, 567-573: the submission returns; on success the counter is
\* incremented and Some(signature) returned; the task reports and drops its permit
ChunkConfirm(h) ==
    /\ CallOf(h).inflight > 0
    /\ SetCall(h, [CallOf(h) EXCEPT !.inflight = @ - 1])
    /\ \/ /\ counter' = [counter EXCEPT ![EpochOf(h)] = @ + 1]
          /\ signed' = [signed EXCEPT ![EpochOf(h)] = @ + 1]
       \/ UNCHANGED <<counter, signed>>
    /\ UNCHANGED <<slot, est, mon, chan, run_pc, reports, otherE>>

\* lines 671-673, 893-900: the task ends without a submission (not in the active
\* phase, not eligible, an error)
ChunkEnd(h) ==
    /\ CallOf(h).running > 0
    /\ SetCall(h, [CallOf(h) EXCEPT !.running = @ - 1])
    /\ UNCHANGED <<slot, est, mon, chan, run_pc, counter, signed, reports, otherE>>

\* lines 587-622: every sender is dropped, rx.recv() yields None
ProcessQueueReturn(h) ==
    /\ CallOf(h).pc = "collect"
    /\ CallOf(h).waiting = 0 /\ InFlightChunks(CallOf(h)) = 0
    /\ SetCall(h, Returned("ok"))
    /\ UNCHANGED <<slot, est, mon, chan, run_pc, counter, signed, reports, otherE>>

(***************************************************************************)
(* process_epoch: Register, WaitActive, PerformWork, WaitReport, Report.   *)
(* `?` ends the task at the first error.                                   *)
(***************************************************************************)
\* variant: the error of one task ends every task
FailAll(c, why) == ctl' = [x \in DOMAIN ctl |-> [ctl[x] EXCEPT !.pc = "error", !.err = why]]

Fail(c, why) == ctl' = [ctl EXCEPT ![c].pc = "error", ![c].err = why]

\* variant: the task goes on to report_work from wherever it is
GotoReport(c, pc) == ctl' = [ctl EXCEPT ![c].pc = "report"]

Goto(c, pc) == ctl' = [ctl EXCEPT ![c].pc = pc]

\* variant: the registration phase's end is not looked at
NeverTooLate(s, e) == FALSE

\* lines 229, 302: the slot read is not before the end of the registration phase
TooLateToRegister(s, e) == s >= GetEpochPhases(e).registration.end

\* register_for_epoch: a connection and the chain's slot (`?`), the check of
\* the registration phase, Epoch::register (Err or None: an error), the read of
\* the ForesterEpochPda (Err or None: an error)
RegisterForEpoch(c) ==
    /\ ctl[c].pc = "register"
    /\ LET read == [ctl[c] EXCEPT !.late = (slot >= GetEpochPhases(ctl[c].epoch).registration.end)]
           sub == [read EXCEPT !.registered = @ + 1]
       IN \/ Fail(c, "failed")
          \/ /\ TooLateToRegister(slot, ctl[c].epoch)
             /\ ctl' = [ctl EXCEPT ![c] = [read EXCEPT !.pc = "error", !.err = "too_late"]]
          \/ /\ ~TooLateToRegister(slot, ctl[c].epoch)
             /\ \/ ctl' = [ctl EXCEPT ![c] = [read EXCEPT !.pc = "error", !.err = "failed"]]
                \/ ctl' = [ctl EXCEPT ![c] = [sub EXCEPT !.pc = "error", !.err = "failed"]]
                \/ ctl' = [ctl EXCEPT ![c] = [sub EXCEPT !.pc = "wait_active"]]
    /\ UNCHANGED <<slot, est, mon, chan, run_pc, counter, signed, reports, drains, otherE>>

\* wait_for_active_phase: wait, finalize the registration, read the PDA again
WaitForActivePhase(c) ==
    /\ ctl[c].pc = "wait_active"
    /\ \/ /\ est >= GetEpochPhases(ctl[c].epoch).active.start
          /\ Goto(c, "perform_work")
       \/ Fail(c, "failed")
    /\ UNCHANGED <<slot, est, mon, chan, run_pc, counter, signed, reports, drains, otherE>>

\* perform_active_work up to line 408: the estimate decides whether any work is done
PerformActiveWork(c) ==
    /\ ctl[c].pc = "perform_work"
    /\ \/ /\ IsInActivePhase(est, ctl[c].epoch) = "err"
          /\ Fail(c, "failed")
       \/ /\ IsInActivePhase(est, ctl[c].epoch) = "false"
          /\ Goto(c, "wait_report")
       \/ /\ IsInActivePhase(est, ctl[c].epoch) = "true"
          /\ ctl' = [ctl EXCEPT ![c].pc = "initial_drain", ![c].tree = 1,
                                ![c].call = [NoDrain EXCEPT !.pc = "start"]]
    /\ UNCHANGED <<slot, est, mon, chan, run_pc, counter, signed, reports, drains, otherE>>

\* process_queues (lines 487-493) under line 399: the awaited call has returned;
\* its error ends the loop over the trees and is logged
ProcessQueues(c) ==
    /\ ctl[c].pc = "initial_drain"
    /\ ctl[c].call.pc = "done"
    /\ IF ctl[c].call.res = "ok" /\ ctl[c].tree < NumTrees
       THEN ctl' = [ctl EXCEPT ![c].tree = @ + 1,
                               ![c].call = [NoDrain EXCEPT !.pc = "start"]]
       ELSE ctl' = [ctl EXCEPT ![c].pc = "subscribe", ![c].tree = 0, ![c].call = NoDrain]
    /\ UNCHANGED <<slot, est, mon, chan, run_pc, counter, signed, reports, drains, otherE>>

\* line 410: setup_pubsub_client
Subscribe(c) ==
    /\ ctl[c].pc = "subscribe"
    /\ \/ Goto(c, "react")
       \/ Fail(c, "failed")
    /\ UNCHANGED <<slot, est, mon, chan, run_pc, counter, signed, reports, drains, otherE>>

\* variant: the slot of the update is not looked at
UpdateNeverEndsLoop(update_slot, active_phase_end) == FALSE

\* line 421: an update from the active phase's end on ends the loop
UpdateEndsLoop(update_slot, active_phase_end) == update_slot >= active_phase_end

\* line 444: the estimate is looked at after the select arm has run
EstimateEndsLoop(estimated_slot, active_phase_end) == estimated_slot >= active_phase_end

\* lines 417-447, the arm of an update: its slot is the chain's
RecvUpdate(c) ==
    /\ ctl[c].pc = "react"
    /\ LET active_phase_end == GetEpochPhases(ctl[c].epoch).active.end
       IN \/ /\ UpdateEndsLoop(slot, active_phase_end)
             /\ ctl' = [ctl EXCEPT ![c].pc = "sweep", ![c].tree = 1]
             /\ UNCHANGED drains
          \/ /\ ~UpdateEndsLoop(slot, active_phase_end)
             /\ \E d \in DOMAIN drains :
                  /\ drains[d].ctl = 0
                  /\ \A x \in 1 .. d - 1 : drains[x].ctl # 0
                  /\ drains' = [drains EXCEPT ![d] = [ctl |-> c, call |-> [NoDrain EXCEPT !.pc = "start"]]]
             /\ IF EstimateEndsLoop(est, active_phase_end)
                THEN ctl' = [ctl EXCEPT ![c].pc = "sweep", ![c].tree = 1]
                ELSE UNCHANGED ctl
    /\ UNCHANGED <<slot, est, mon, chan, run_pc, counter, signed, reports, otherE>>

\* lines 432-435: the subscription has ended, the else arm breaks
SubscriptionEnds(c) ==
    /\ ctl[c].pc = "react"
    /\ ctl' = [ctl EXCEPT ![c].pc = "sweep", ![c].tree = 1]
    /\ UNCHANGED <<slot, est, mon, chan, run_pc, counter, signed, reports, drains, otherE>>

\* lines 454-465: one tree of the rollover sweep
RolloverSweep(c) ==
    /\ ctl[c].pc = "sweep"
    /\ \/ Fail(c, "failed")
       \/ IF ctl[c].tree < NumTrees
          THEN ctl' = [ctl EXCEPT ![c].tree = @ + 1]
          ELSE ctl' = [ctl EXCEPT ![c].pc = "wait_report", ![c].tree = 0]
    /\ UNCHANGED <<slot, est, mon, chan, run_pc, counter, signed, reports, drains, otherE>>

\* wait_for_report_work_phase
WaitForReportWorkPhase(c) ==
    /\ ctl[c].pc = "wait_report"
    /\ \/ /\ est >= GetEpochPhases(ctl[c].epoch).report_work.start
          /\ Goto(c, "report")
       \/ Fail(c, "failed")
    /\ UNCHANGED <<slot, est, mon, chan, run_pc, counter, signed, reports, drains, otherE>>

\* get_processed_items_count
GetProcessedItemsCount(e) == counter[e]

\* the ledger takes a report_work instruction of epoch e at slot s
InReportWorkPhase(s, e) ==
    /\ s >= GetEpochPhases(e).report_work.start
    /\ s < GetEpochPhases(e).report_work.end

\* variant: the outcome of the report_work transaction is not looked at
ReportWorkUnawaited(c) ==
    /\ ctl[c].pc = "report"
    /\ \/ ctl' = [ctl EXCEPT ![c].pc = "publish"]
       \/ /\ InReportWorkPhase(slot, ctl[c].epoch)
          /\ ctl' = [ctl EXCEPT ![c].pc = "publish", ![c].reported = @ + 1]
    /\ UNCHANGED <<slot, est, mon, chan, run_pc, counter, signed, reports, drains, otherE>>

\* report_work, lines 973-985: a connection, then the report_work transaction
\* is sent and awaited (`?`)
ReportWork(c) ==
    /\ ctl[c].pc = "report"
    /\ \/ Fail(c, "failed")
       \/ ctl' = [ctl EXCEPT ![c].pc = "error", ![c].err = "failed", ![c].reported = @ + 1]
       \/ /\ InReportWorkPhase(slot, ctl[c].epoch)
          /\ ctl' = [ctl EXCEPT ![c].pc = "publish", ![c].reported = @ + 1]
    /\ UNCHANGED <<slot, est, mon, chan, run_pc, counter, signed, reports, drains, otherE>>

\* report_work, lines 987-997: the WorkReport is built from the counter and
\* sent on work_report_sender (`?`)
PublishReport(c) ==
    /\ ctl[c].pc = "publish"
    /\ \/ /\ Fail(c, "failed")
          /\ UNCHANGED reports
       \/ /\ reports' = Append(reports, [epoch |-> ctl[c].epoch,
                                         processed_items |-> GetProcessedItemsCount(ctl[c].epoch)])
          /\ ctl' = [ctl EXCEPT ![c].pc = "done", ![c].sent = @ + 1]
    /\ UNCHANGED <<slot, est, mon, chan, run_pc, counter, signed, drains, otherE>>

Next ==
    \/ Tick
    \/ MonitorEpochs
    \/ RunRecv
    \/ RunReturn
    \/ \E c \in DOMAIN ctl : RegisterForEpoch(c)
    \/ \E c \in DOMAIN ctl : WaitForActivePhase(c)
    \/ \E c \in DOMAIN ctl : PerformActiveWork(c)
    \/ \E c \in DOMAIN ctl : ProcessQueues(c)
    \/ \E c \in DOMAIN ctl : Subscribe(c)
    \/ \E c \in DOMAIN ctl : RecvUpdate(c)
    \/ \E c \in DOMAIN ctl : SubscriptionEnds(c)
    \/ \E c \in DOMAIN ctl : RolloverSweep(c)
    \/ \E c \in DOMAIN ctl : WaitForReportWorkPhase(c)
    \/ \E c \in DOMAIN ctl : ReportWork(c)
    \/ \E c \in DOMAIN ctl : PublishReport(c)
    \/ \E c \in DOMAIN ctl : ProcessQueueStart(<<"ctl", c>>)
    \/ \E c \in DOMAIN ctl : ChunkAcquire(<<"ctl", c>>)
    \/ \E c \in DOMAIN ctl : ChunkSubmit(<<"ctl", c>>)
    \/ \E c \in DOMAIN ctl : ChunkConfirm(<<"ctl", c>>)
    \/ \E c \in DOMAIN ctl : ChunkEnd(<<"ctl", c>>)
    \/ \E c \in DOMAIN ctl : ProcessQueueReturn(<<"ctl", c>>)

Spec == Init /\ [][Next]_vars

(***************************************************************************)
(* Properties of the Epoch Manager and its controllers.                    *)
(***************************************************************************)
ReportsOf(e) == { i \in DOMAIN reports : reports[i].epoch = e }

\* C1: for every epoch at most one WorkReport is ever published, and an epoch
\* whose controller ended with an error has no WorkReport (never both an error
\* termination and a report).
C1_AtMostOneReportPerEpoch ==
    /\ \A e \in Epochs : Cardinality(ReportsOf(e)) <= 1
    /\ \A c \in DOMAIN ctl :
         ctl[c].pc = "error" => (ctl[c].sent = 0 /\ ReportsOf(ctl[c].epoch) = {})

\* one epoch has been reported while the controller of another ended with an error
C1_Witness ==
    \E c \in DOMAIN ctl : \E x \in DOMAIN ctl :
       /\ ctl[c].pc = "done" /\ Cardinality(ReportsOf(ctl[c].epoch)) = 1
       /\ ctl[x].pc = "error" /\ ctl[x].err = "failed"

\* C12: when the slot read at registration is at or past registration.end of
\* the epoch, register_for_epoch fails without a registration transaction, the
\* controller has ended, and the epoch has no work transaction, no report_work
\* instruction and no WorkReport.
C12_LateRegistrationEndsController ==
    \A c \in DOMAIN ctl :
       ctl[c].late =>
          /\ ctl[c].pc = "error" /\ ctl[c].err = "too_late"
          /\ ctl[c].registered = 0
          /\ ctl[c].call = NoDrain
          /\ counter[ctl[c].epoch] = 0 /\ signed[ctl[c].epoch] = 0
          /\ ctl[c].reported = 0 /\ ctl[c].sent = 0
          /\ ReportsOf(ctl[c].epoch) = {}

\* the controller of epoch 1 has read slot 3 = registration.end, and the chain
\* has gone on to the report-work phase of that epoch
C12_Witness ==
    \E c \in DOMAIN ctl :
       /\ ctl[c].late /\ ctl[c].epoch = 1
       /\ slot >= GetEpochPhases(1).report_work.start

\* the phase of process_epoch a task is in: 1 Register, 2 WaitActive,
\* 3 PerformWork, 4 WaitReport, 5 Report, 6 returned Ok, 7 returned Err
PhaseOf(pc) ==
    CASE pc = "register" -> 1
      [] pc = "wait_active" -> 2
      [] pc \in {"perform_work", "initial_drain", "subscribe", "react", "sweep"} -> 3
      [] pc = "wait_report" -> 4
      [] pc \in {"report", "publish"} -> 5
      [] pc = "done" -> 6
      [] pc = "error" -> 7

\* C13: a controller moves through Register, WaitActive, PerformWork,
\* WaitReport, Report in this order only: every step leaves it in its phase,
\* takes it to the next one, or (from a phase that can fail) ends it with an
\* error; a controller that has ended, with or without an error, does nothing
\* more.
C13_PhasesInOrder ==
    [][\A c \in DOMAIN ctl :
         LET a == PhaseOf(ctl[c].pc)
             b == PhaseOf(ctl'[c].pc)
         IN IF a >= 6 THEN ctl'[c] = ctl[c]
            ELSE b = a \/ b = a + 1 \/ b = 7]_vars

\* one controller has gone through every phase and reported, another has
\* failed after its registration
C13_Witness ==
    \E c \in DOMAIN ctl : \E x \in DOMAIN ctl :
       /\ ctl[c].pc = "done" /\ ctl[c].registered = 1 /\ ctl[c].reported = 1 /\ ctl[c].sent = 1
       /\ ctl[x].pc = "error" /\ ctl[x].registered = 1 /\ ctl[x].sent = 0

\* C14: the error of one controller does not end the run loop and does not
\* touch the controllers of other epochs: run returns only once the monitor
\* has exited, an announced epoch is always received and spawned, and the step
\* in which a controller fails changes nothing of the monitor, the channel,
\* the run loop or any other controller.
C14_ControllerErrorIsIsolated ==
    /\ [](run_pc = "returned" => mon.exited)
    /\ [](chan # <<>> => ENABLED RunRecv)
    /\ [][\A c \in DOMAIN ctl :
            (ctl[c].pc # "error" /\ ctl'[c].pc = "error") =>
               /\ run_pc' = run_pc /\ chan' = chan /\ mon' = mon
               /\ DOMAIN ctl' = DOMAIN ctl
               /\ \A x \in DOMAIN ctl \ {c} : ctl'[x] = ctl[x]]_vars

\* the controller of epoch 0 has failed; the one of epoch 1, spawned after
\* it, has run to its end and reported, and the run loop is still receiving
C14_Witness ==
    \E c \in DOMAIN ctl : \E x \in DOMAIN ctl :
       /\ c < x /\ ctl[c].epoch = 0 /\ ctl[x].epoch = 1
       /\ ctl[c].pc = "error"
       /\ ctl[x].pc = "done" /\ ReportsOf(1) # {}
       /\ run_pc = "loop"

\* C15: a failure inside the epoch monitor is logged and retried: the monitor
\* loop keeps running and run does not return (no shutdown signal is given in
\* these runs).
C15_MonitorKeepsRunning ==
    ~mon.exited /\ run_pc = "loop"

\* the epochs the monitor has sent on the epoch channel, in the order sent:
\* those run has received (one controller each), then those still in the channel
Emitted == [i \in 1 .. Len(ctl) |-> ctl[i].epoch] \o chan

\* C16: the monitor sends an epoch on the epoch channel only when it is greater
\* than every epoch sent before and the slot it observed is below
\* registration.end of that epoch; so each epoch is sent at most once and has
\* at most one controller, also after a failed wait has made the loop iterate
\* again.
C16_EpochEmittedOnce ==
    /\ [](\A i \in DOMAIN Emitted : \A j \in DOMAIN Emitted : i < j => Emitted[i] < Emitted[j])
    /\ [](\A c \in DOMAIN ctl : \A x \in DOMAIN ctl : ctl[c].epoch = ctl[x].epoch => c = x)
    /\ [][Len(chan') > Len(chan) =>
            /\ chan' = Append(chan, GetCurrentEpoch(est))
            /\ est < GetEpochPhases(GetCurrentEpoch(est)).registration.end]_vars

\* epochs 0 and 1 have been sent, one controller each, and the loop has
\* iterated again after a failed wait
C16_Witness ==
    /\ Emitted = <<0, 1>> /\ Len(ctl) = 2
    /\ mon.retried

\* C19: the initial drain invokes the queue drainer for every tree of the
\* epoch in sequence; the error of one tree's drain does not keep the
\* remaining trees from being drained: the drain is left only after the last
\* tree's call.
C19_InitialDrainCoversEveryTree ==
    [][\A c \in DOMAIN ctl :
         (ctl[c].pc = "initial_drain" /\ ctl'[c].pc = "subscribe") =>
            ctl[c].tree = NumTrees]_vars

\* C20: the WorkReports of overlapping controllers are published in the order
\* of their Report phases, the report of epoch N before that of epoch N+1,
\* however the steps of the two controllers interleave.
C20_ReportsInEpochOrder ==
    \A i \in DOMAIN reports : \A j \in DOMAIN reports :
       i < j => reports[i].epoch < reports[j].epoch

\* controllers of epoch e whose report_work has returned Ok
ReportedOk(e) == { c \in DOMAIN ctl : ctl[c].epoch = e /\ ctl[c].pc = "done" }

\* C27: a WorkReport of epoch e is published only after the report_work
\* transaction of e has succeeded: every message on the channel belongs to a
\* controller whose transaction landed, a controller whose transaction did
\* not land has sent nothing, and the channel carries exactly one message for
\* each epoch whose report_work returned Ok.
C27_ReportOnlyAfterReportWork ==
    /\ \A i \in DOMAIN reports :
         \E c \in ReportedOk(reports[i].epoch) : ctl[c].reported = 1 /\ ctl[c].sent = 1
    /\ \A c \in DOMAIN ctl :
         ctl[c].reported = 0 => (ctl[c].sent = 0 /\ ctl[c].pc \notin {"publish", "done"})
    /\ \A e \in Epochs : Cardinality(ReportsOf(e)) = Cardinality(ReportedOk(e))

\* one epoch has its message; the report_work of another ended with an error
\* and nothing was published for it
C27_Witness ==
    \E c \in DOMAIN ctl : \E x \in DOMAIN ctl :
       /\ ctl[c].pc = "done" /\ ctl[c].sent = 1 /\ ReportsOf(ctl[c].epoch) # {}
       /\ ctl[x].pc = "error" /\ ctl[x].registered = 1 /\ ctl[x].sent = 0
       /\ slot >= GetEpochPhases(ctl[x].epoch).report_work.start
       /\ ReportsOf(ctl[x].epoch) = {}

\* C29: a controller enters the wait for the report-work phase, which is
\* where perform_active_work has returned Ok, only from the rollover sweep.
C29_SweepBeforeEveryReturn ==
    [][\A c \in DOMAIN ctl :
         (c \in DOMAIN ctl' /\ ctl[c].pc # "wait_report" /\ ctl'[c].pc = "wait_report")
            => ctl[c].pc = "sweep"]_vars

(***************************************************************************)
(* SpecWork: run has received epoch e and spawned its process_epoch.       *)
(***************************************************************************)
FreeDrain == [ctl |-> 0, call |-> NoDrain]

InitWork ==
    /\ \E e \in Epochs :
         /\ slot = GetEpochPhases(e).registration.start
         /\ ctl = <<NewCtl(e)>>
    /\ est \in EstimateWindow(slot)
    /\ mon = [last_epoch |-> -1, target |-> 0, retried |-> FALSE, exited |-> TRUE]
    /\ chan = <<>>
    /\ run_pc = "loop"
    /\ counter = [e \in Epochs |-> 0]
    /\ signed = [e \in Epochs |-> 0]
    /\ reports = <<>>
    /\ drains = [d \in 1 .. MaxUpdates |-> FreeDrain]
    /\ config = EpochConfig
    /\ pq = NoCall /\ tasks = <<>> /\ schedule = <<>> /\ sweep = NoSweep
    /\ tk = NoTasks /\ mutex = "none" /\ pool = 0
    /\ svc = NoService /\ ck = NoChunks /\ iq = NoItems /\ esc = NoEscrow

NextWork ==
    \/ Tick
    \/ \E c \in DOMAIN ctl : RegisterForEpoch(c)
    \/ \E c \in DOMAIN ctl : WaitForActivePhase(c)
    \/ \E c \in DOMAIN ctl : PerformActiveWork(c)
    \/ \E c \in DOMAIN ctl : ProcessQueues(c)
    \/ \E c \in DOMAIN ctl : Subscribe(c)
    \/ \E c \in DOMAIN ctl : RecvUpdate(c)
    \/ \E c \in DOMAIN ctl : SubscriptionEnds(c)
    \/ \E c \in DOMAIN ctl : RolloverSweep(c)
    \/ \E c \in DOMAIN ctl : WaitForReportWorkPhase(c)
    \/ \E c \in DOMAIN ctl : ReportWork(c)
    \/ \E c \in DOMAIN ctl : PublishReport(c)
    \/ \E h \in Handles : ProcessQueueStart(h)
    \/ \E h \in Handles : ChunkAcquire(h)
    \/ \E h \in Handles : ChunkSubmit(h)
    \/ \E h \in Handles : ChunkConfirm(h)
    \/ \E h \in Handles : ChunkEnd(h)
    \/ \E h \in Handles : ProcessQueueReturn(h)

SpecWork == InitWork /\ [][NextWork]_vars

(***************************************************************************)
(* FairWork: the chain keeps advancing, and every step of the controller   *)
(* and of its drainers that waits only on the scheduler or on the return   *)
(* of an RPC call is eventually taken.  The arrival of a queue update and  *)
(* the end of the subscription are the environment's: nothing forces them. *)
(***************************************************************************)
FairWork ==
    /\ SpecWork
    /\ WF_vars(Tick)
    /\ WF_vars(\E c \in DOMAIN ctl : RegisterForEpoch(c))
    /\ WF_vars(\E c \in DOMAIN ctl : WaitForActivePhase(c))
    /\ WF_vars(\E c \in DOMAIN ctl : PerformActiveWork(c))
    /\ WF_vars(\E c \in DOMAIN ctl : ProcessQueues(c))
    /\ WF_vars(\E c \in DOMAIN ctl : Subscribe(c))
    /\ WF_vars(\E c \in DOMAIN ctl : RolloverSweep(c))
    /\ WF_vars(\E c \in DOMAIN ctl : WaitForReportWorkPhase(c))
    /\ WF_vars(\E c \in DOMAIN ctl : ReportWork(c))
    /\ WF_vars(\E c \in DOMAIN ctl : PublishReport(c))
    /\ WF_vars(\E h \in Handles : ProcessQueueStart(h))
    /\ WF_vars(\E h \in Handles : ChunkAcquire(h))
    /\ WF_vars(\E h \in Handles : ChunkSubmit(h) \/ ChunkEnd(h))
    /\ WF_vars(\E h \in Handles : ChunkConfirm(h))
    /\ WF_vars(\E h \in Handles : ProcessQueueReturn(h))

(***************************************************************************)
(* Properties of one controller and its drainers.                          *)
(***************************************************************************)
\* C2: with the chain advancing and every RPC call returning, every spawned
\* controller eventually terminates (Done or Error); it stays forever in no
\* phase.
C2_ControllerTerminates ==
    <>(\A c \in DOMAIN ctl : ctl[c].pc \in {"done", "error"})

\* C17: the react loop ends once the estimated slot has reached active.end,
\* also when no queue update arrives and the subscription stays open: the
\* controller goes on to the shutdown of the subscription and the sweep.
C17_ReactLoopEnds ==
    (ctl[1].pc = "react" /\ est >= GetEpochPhases(ctl[1].epoch).active.end)
       ~> (ctl[1].pc # "react")

\* C3: the processed_items of a published WorkReport equals the number of
\* batches of its epoch for which Some(signature) was returned, including those
\* of drainers that were detached.
C3_ReportCountsEverySignedBatch ==
    \A i \in DOMAIN reports : reports[i].processed_items = signed[reports[i].epoch]

\* chunk tasks in flight in the detached calls 1 .. d of controller c
RECURSIVE DetachedInFlight(_, _)
DetachedInFlight(c, d) ==
    IF d = 0 THEN 0
    ELSE DetachedInFlight(c, d - 1) +
         (IF drains[d].ctl = c THEN InFlightChunks(drains[d].call) ELSE 0)

\* C5: within one controller at most indexer_max_concurrent_batches chunk tasks
\* are in flight at any instant, also when several queue updates have spawned
\* several detached process_queue calls.
C5_ChunkTasksBoundedPerController ==
    \A c \in DOMAIN ctl :
       InFlightChunks(ctl[c].call) + DetachedInFlight(c, Len(drains))
          <= config.indexer_max_concurrent_batches

\* detached process_queue calls spawned so far
Spawned == { d \in DOMAIN drains : drains[d].ctl # 0 }

\* C28: in the react loop an update whose slot is at or past active.end ends
\* the loop and spawns nothing; a detached process_queue is spawned only by
\* an update before active.end, one per update, starting at its entry; and
\* the return of a detached call, an error included, changes nothing in the
\* controller.
C28_UpdateSpawnsOrEndsLoop ==
    [][/\ \A d \in DOMAIN drains :
            (drains[d].ctl = 0 /\ drains'[d].ctl # 0) =>
               /\ ctl[drains'[d].ctl].pc = "react"
               /\ slot < GetEpochPhases(ctl[drains'[d].ctl].epoch).active.end
               /\ drains'[d].call = [NoDrain EXCEPT !.pc = "start"]
               /\ Cardinality(Spawned') = Cardinality(Spawned) + 1
       /\ \A c \in DOMAIN ctl :
            (ctl[c].pc = "react" /\ ctl'[c] # ctl[c]) =>
               /\ ctl'[c].pc = "sweep"
               /\ slot >= GetEpochPhases(ctl[c].epoch).active.end => drains' = drains
       /\ \A d \in DOMAIN drains :
            (drains[d].ctl # 0 /\ drains'[d].call # drains[d].call) => ctl' = ctl]_vars

\* the first detached call has returned an error; the loop is still running
\* and has spawned a second call
C28_Witness ==
    /\ ctl[1].pc = "react"
    /\ drains[1].ctl = 1 /\ drains[1].call.pc = "done" /\ drains[1].call.res = "err"
    /\ drains[2].ctl = 1 /\ drains[2].call.pc = "start"

(***************************************************************************)
(* SpecDrain: one process_queue call of epoch pq.epoch, down to the batch  *)
(* tasks of process_work_items and the retry loop of each.                 *)
(***************************************************************************)
MaxRetries == 2     \* config.max_retries of the drained call
MaxDrainItems == 2  \* items the fetch of the drained call returns

LightSlotLength == 1

\* ForesterEpochPda::get_current_light_slot; -1 is its error (before the active phase)
GetCurrentLightSlot(s, e) ==
    IF s < GetEpochPhases(e).active.start THEN -1
    ELSE (s - GetEpochPhases(e).active.start) \div LightSlotLength

\* TreeForesterSchedule::is_eligible: a light slot outside the schedule is not eligible
IsEligible(light_slot) == light_slot + 1 \in DOMAIN schedule /\ schedule[light_slot + 1]

\* the forester is scheduled for the tree at chain slot s
EligibleAt(s, e) ==
    /\ s >= GetEpochPhases(e).active.start
    /\ s < GetEpochPhases(e).active.end
    /\ schedule[((s - GetEpochPhases(e).active.start) \div LightSlotLength) + 1]

\* the configurations a drained call runs under: chunk tasks one after the
\* other, chunk tasks side by side, one chunk task of several iterations
DrainConfigs ==
    { [EpochConfig EXCEPT !.max_retries = MaxRetries],
      [EpochConfig EXCEPT !.indexer_max_concurrent_batches = MaxDrainItems],
      [EpochConfig EXCEPT !.indexer_batch_size = MaxDrainItems] }

Min(a, b) == IF a < b THEN a ELSE b

\* work_items.chunks(indexer_batch_size): size of chunk k (1-based) of n items
ChunkLen(n, k) == Min(config.indexer_batch_size, n - (k - 1) * config.indexer_batch_size)

\* variant: a last chunk shorter than transaction_batch_size is left out
TxChunkLenWhole(len, i) ==
    IF (i + 1) * config.transaction_batch_size > len THEN 0
    ELSE config.transaction_batch_size

\* work_items.chunks(transaction_batch_size) inside process_work_items: the
\* size of the chunk of iteration i (0-based), 0 when the loop is over
TxChunkLen(len, i) ==
    IF i * config.transaction_batch_size >= len THEN 0
    ELSE Min(config.transaction_batch_size, len - i * config.transaction_batch_size)

\* all_instructions.chunks(transaction_batch_size): batch tasks one iteration spawns
NumBatches(instructions) ==
    (instructions + config.transaction_batch_size - 1) \div config.transaction_batch_size

NewBatch(i) ==
    [pc |-> "sem", iter |-> i, retries |-> 0, result |-> "none",
     chk_elig |-> FALSE, act_before_end |-> FALSE, act_late |-> FALSE,
     subs |-> 0, subs_inelig |-> 0, subs_after_end |-> 0, subs_unchecked |-> 0, subs_late |-> 0,
     est_late |-> FALSE, confirms |-> 0, incs |-> 0, delay |-> 0, sleeps |-> 0,
     upds |-> 0, passed |-> 0, stop |-> FALSE]

NewTask(len) ==
    [pc |-> "sem", len |-> len, iter |-> 0, res |-> "none", sigs |-> 0, batches |-> <<>>]

BASE_RETRY_DELAY == 100

MaxJitter == 50

\* the jitters the model draws from gen_range(0..=50)
Jitters == {0, MaxJitter}

\* variant: the delay does not grow
RetryDelayFlat(retries, jitter) == BASE_RETRY_DELAY + jitter

\* lines 881-884: delay = BASE_RETRY_DELAY * 2^retries, plus the jitter
RetryDelay(retries, jitter) == BASE_RETRY_DELAY * (2 ^ retries) + jitter

\* variant: one more attempt is allowed
MaxRetriesExceeded(retries) == retries > config.max_retries

\* line 874
MaxRetriesReached(retries) == retries >= config.max_retries

\* variant: the count goes up by two
IncrementTwice(cnt, e) == [cnt EXCEPT ![e] = @ + 2]

\* increment_processed_items_count
IncrementProcessedItemsCount(cnt, e) == [cnt EXCEPT ![e] = @ + 1]

InitDrain ==
    /\ \E known \in BOOLEAN : pq = [NoCall EXCEPT !.pc = "start", !.known = known]
    /\ slot = GetEpochPhases(pq.epoch).active.start
    /\ est \in EstimateWindow(slot)
    /\ schedule \in [1 .. (ActivePhaseLength \div LightSlotLength) -> BOOLEAN]
    /\ config \in DrainConfigs
    /\ tasks = <<>>
    /\ sweep = NoSweep
    /\ tk = NoTasks /\ mutex = "none" /\ pool = 0
    /\ svc = NoService /\ ck = NoChunks /\ iq = NoItems /\ esc = NoEscrow
    /\ counter = [e \in Epochs |-> 0]
    /\ signed = [e \in Epochs |-> 0]
    /\ mon = [last_epoch |-> -1, target |-> 0, retried |-> FALSE, exited |-> TRUE]
    /\ chan = <<>>
    /\ run_pc = "loop"
    /\ ctl = <<>>
    /\ reports = <<>>
    /\ drains = <<>>

DrainTick ==
    /\ slot < GetEpochPhases(pq.epoch).active.end
    /\ slot' = slot + 1
    /\ est' \in EstimateWindow(slot + 1)
    /\ UNCHANGED <<pq, tasks, counter, signed, otherD>>

\* variant: the queue is taken to be that of some tree
TreeAlwaysFound(known) == TRUE

\* lines 506-510: a tree of the epoch has this queue
TreeFound(known) == known

\* lines 500-576: a connection and the slot (`?`), the active-phase check,
\* the tree of the queue, the fetch (`?`), one task per chunk
DrainStart ==
    /\ pq.pc = "start"
    /\ LET phase == IsInActivePhase(slot, pq.epoch)
           read == [pq EXCEPT !.phase = phase]
       IN \/ pq' = [pq EXCEPT !.pc = "done", !.res = "err"] /\ UNCHANGED tasks
          \/ /\ phase = "err"
             /\ pq' = [read EXCEPT !.pc = "done", !.res = "err"]
             /\ UNCHANGED tasks
          \/ /\ phase = "false"
             /\ pq' = [read EXCEPT !.pc = "done", !.res = "ok"]
             /\ UNCHANGED tasks
          \/ /\ phase = "true"
             /\ ~TreeFound(pq.known)
             /\ pq' = [read EXCEPT !.pc = "done", !.res = "tree_not_found"]
             /\ UNCHANGED tasks
          \/ /\ phase = "true"
             /\ TreeFound(pq.known)
             /\ \/ pq' = [read EXCEPT !.pc = "done", !.res = "err"] /\ UNCHANGED tasks
                \/ \E n \in 0 .. MaxDrainItems :
                     IF n = 0
                     THEN pq' = [read EXCEPT !.pc = "done", !.res = "ok", !.fetched = TRUE]
                          /\ UNCHANGED tasks
                     ELSE /\ pq' = [read EXCEPT !.pc = "collect", !.fetched = TRUE]
                          /\ tasks' = [k \in 1 .. NumChunks(n) |-> NewTask(ChunkLen(n, k))]
    /\ UNCHANGED <<slot, est, counter, signed, otherD>>

\* chunk tasks that hold a permit of the call's semaphore
TasksInFlight == { k \in DOMAIN tasks : tasks[k].pc \in {"loop", "collect"} }

\* line 547
TaskPermitAvailable == Cardinality(TasksInFlight) < config.indexer_max_concurrent_batches

TaskAcquire(k) ==
    /\ tasks[k].pc = "sem"
    /\ TaskPermitAvailable
    /\ tasks' = [tasks EXCEPT ![k].pc = "loop"]
    /\ UNCHANGED <<slot, est, pq, counter, signed, otherD>>

\* variant: a chunk whose process_work_items failed is queued again
TaskRequeue(k, res) ==
    IF res = "err"
    THEN tasks' = [tasks EXCEPT ![k] = NewTask(@.len)] /\ UNCHANGED pq
    ELSE /\ tasks' = [tasks EXCEPT ![k].pc = "done", ![k].res = res]
         /\ pq' = [pq EXCEPT !.received = @ + 1]

\* lines 562-573: process_work_items has returned res; the task sends it and
\* drops its permit
TaskReturn(k, res) ==
    /\ tasks' = [tasks EXCEPT ![k].pc = "done", ![k].res = res]
    /\ pq' = [pq EXCEPT !.received = @ + 1]

\* lines 659-725: one iteration of the loop of process_work_items up to the
\* spawn of its batch tasks, or the return after the last iteration
TaskIterate(k) ==
    /\ tasks[k].pc = "loop"
    /\ LET t == tasks[k]
           m == TxChunkLen(t.len, t.iter)
       IN IF m = 0
          THEN TaskReturn(k, "ok")
          ELSE \/ TaskReturn(k, "err")
               \/ /\ IsInActivePhase(slot, pq.epoch) = "false"
                  /\ TaskReturn(k, "err")
               \/ /\ IsInActivePhase(slot, pq.epoch) = "true"
                  /\ tasks' = [tasks EXCEPT ![k].pc = "collect",
                                 ![k].batches = @ \o [b \in 1 .. NumBatches(m) |-> NewBatch(t.iter)]]
                  /\ UNCHANGED pq
    /\ UNCHANGED <<slot, est, counter, signed, otherD>>

\* batch tasks of chunk task k that hold a permit of its process_work_items call
BatchesInFlight(k) ==
    { b \in DOMAIN tasks[k].batches :
        tasks[k].batches[b].pc \in {"elig", "active", "submit", "backoff"} }

\* line 697
BatchPermitAvailable(k) ==
    Cardinality(BatchesInFlight(k)) < config.transaction_max_concurrent_batches

BatchAcquire(k, b) ==
    /\ tasks[k].batches[b].pc = "sem"
    /\ BatchPermitAvailable(k)
    /\ tasks' = [tasks EXCEPT ![k].batches[b].pc = "elig"]
    /\ UNCHANGED <<slot, est, pq, counter, signed, otherD>>

\* the batch task ends: with_retry has returned, the result is sent, the permit dropped
BatchDone(r, result) == [r EXCEPT !.pc = "done", !.result = result]

\* variant: NotEligible is taken for a failure and retried
RetrySkipped(r) == [r EXCEPT !.pc = "backoff", !.sleeps = @ + 1, !.delay = BASE_RETRY_DELAY]

\* lines 893-896: NotEligible ends the task with Ok(None)
SkipBatch(r) == BatchDone(r, "none")

\* variant: the batch goes on to process_transaction_batch unchecked
SkipEligibility(k, b) ==
    /\ tasks[k].batches[b].pc = "elig"
    /\ tasks' = [tasks EXCEPT ![k].batches[b].pc = "active",
                               ![k].batches[b].chk_elig = EligibleAt(slot, pq.epoch)]
    /\ UNCHANGED <<slot, est, pq, counter, signed, otherD>>

\* check_eligibility under lines 850-853, 893-900.  Line 822 indexes the
\* schedule inside debug!: past the schedule's end the task panics when debug
\* logging is on and goes on to is_eligible when it is off.
CheckEligibility(k, b) ==
    /\ tasks[k].batches[b].pc = "elig"
    /\ LET r == tasks[k].batches[b]
           light_slot == GetCurrentLightSlot(slot, pq.epoch)
       IN \/ tasks' = [tasks EXCEPT ![k].batches[b] = BatchDone(r, "err")]
          \/ /\ light_slot = -1
             /\ tasks' = [tasks EXCEPT ![k].batches[b] = BatchDone(r, "err")]
          \/ /\ light_slot >= 0
             /\ light_slot + 1 \notin DOMAIN schedule
             /\ tasks' = [tasks EXCEPT ![k].batches[b] = BatchDone(r, "panic")]
          \/ /\ light_slot >= 0
             /\ IF IsEligible(light_slot)
                THEN tasks' = [tasks EXCEPT ![k].batches[b] =
                                 [r EXCEPT !.pc = "active", !.passed = @ + 1,
                                           !.chk_elig = EligibleAt(slot, pq.epoch)]]
                ELSE tasks' = [tasks EXCEPT ![k].batches[b] = SkipBatch(r)]
    /\ UNCHANGED <<slot, est, pq, counter, signed, otherD>>

\* lines 873-890: the Err arm of the retry loop
RetryOrFail(r, jitter) ==
    IF MaxRetriesReached(r.retries)
    THEN BatchDone(r, "err")
    ELSE [r EXCEPT !.pc = "backoff", !.delay = RetryDelay(r.retries, jitter), !.sleeps = @ + 1]

\* lines 916-921: process_transaction_batch reads the chain's slot
CheckActivePhase(k, b) ==
    /\ tasks[k].batches[b].pc = "active"
    /\ LET r == tasks[k].batches[b]
       IN \/ /\ IsInActivePhase(slot, pq.epoch) = "true"
             /\ tasks' = [tasks EXCEPT ![k].batches[b] =
                            [r EXCEPT !.pc = "submit", !.act_late = (est >= GetEpochPhases(pq.epoch).active.end),
                                      !.act_before_end = (slot < GetEpochPhases(pq.epoch).active.end)]]
          \/ /\ IsInActivePhase(slot, pq.epoch) = "false"
             /\ \E j \in Jitters :
                  tasks' = [tasks EXCEPT ![k].batches[b] = RetryOrFail([r EXCEPT !.stop = TRUE], j)]
          \/ \E j \in Jitters : tasks' = [tasks EXCEPT ![k].batches[b] = RetryOrFail(r, j)]
    /\ UNCHANGED <<slot, est, pq, counter, signed, otherD>>

\* lines 922-939, 864-871: the transaction is processed at the chain's slot;
\* confirmed, the indexer is updated, the counter incremented and
\* Some(signature) returned; failed, the Err arm runs
SubmitTransaction(k, b) ==
    /\ tasks[k].batches[b].pc = "submit"
    /\ LET r == tasks[k].batches[b]
           after_end == slot >= GetEpochPhases(pq.epoch).active.end
           sent == [r EXCEPT !.subs = @ + 1,
                             !.subs_inelig = IF EligibleAt(slot, pq.epoch) THEN @ ELSE @ + 1,
                             !.subs_unchecked = IF r.chk_elig THEN @ ELSE @ + 1,
                             !.subs_late = IF after_end /\ ~r.act_before_end THEN @ + 1 ELSE @,
                             !.subs_after_end = IF after_end THEN @ + 1 ELSE @,
                             !.est_late = (@ \/ (r.act_late /\ est >= GetEpochPhases(pq.epoch).active.end))]
       IN \/ /\ tasks' = [tasks EXCEPT ![k].batches[b] =
                            BatchDone([sent EXCEPT !.confirms = @ + 1, !.upds = @ + 1, !.incs = @ + 1], "some")]
             /\ counter' = IncrementProcessedItemsCount(counter, pq.epoch)
             /\ signed' = [signed EXCEPT ![pq.epoch] = @ + 1]
          \/ /\ \E j \in Jitters : tasks' = [tasks EXCEPT ![k].batches[b] = RetryOrFail(sent, j)]
             /\ UNCHANGED <<counter, signed>>
    /\ UNCHANGED <<slot, est, pq, otherD>>

\* variant: the retry goes to process_transaction_batch on the result of the
\* earlier check
RetryUnchecked(k, b) ==
    /\ tasks[k].batches[b].pc = "backoff"
    /\ tasks' = [tasks EXCEPT ![k].batches[b].pc = "active", ![k].batches[b].retries = @ + 1,
                               ![k].batches[b].delay = 0, ![k].batches[b].stop = FALSE]
    /\ UNCHANGED <<slot, est, pq, counter, signed, otherD>>

\* lines 884-885: the sleep is over, the loop starts again at check_eligibility
Retry(k, b) ==
    /\ tasks[k].batches[b].pc = "backoff"
    /\ tasks' = [tasks EXCEPT ![k].batches[b].pc = "elig", ![k].batches[b].retries = @ + 1,
                               ![k].batches[b].delay = 0, ![k].batches[b].chk_elig = FALSE,
                               ![k].batches[b].act_late = FALSE, ![k].batches[b].stop = FALSE]
    /\ UNCHANGED <<slot, est, pq, counter, signed, otherD>>

\* what is kept of a batch task once join_all has returned
Joined(r) ==
    [NewBatch(r.iter) EXCEPT !.pc = "done", !.result = r.result,
                             !.confirms = r.confirms, !.incs = r.incs, !.upds = r.upds,
                             !.retries = r.retries, !.sleeps = r.sleeps]

\* lines 730-745: every sender of the iteration is dropped; the signatures
\* received are kept and the loop goes on
TaskCollect(k) ==
    /\ tasks[k].pc = "collect"
    /\ \A b \in DOMAIN tasks[k].batches : tasks[k].batches[b].pc = "done"
    /\ LET got == { b \in DOMAIN tasks[k].batches :
                      /\ tasks[k].batches[b].iter = tasks[k].iter
                      /\ tasks[k].batches[b].result = "some" }
       IN tasks' = [tasks EXCEPT ![k].pc = "loop", ![k].iter = @ + 1,
                                 ![k].sigs = @ + Cardinality(got),
                                 ![k].batches = [b \in DOMAIN @ |-> Joined(@[b])]]
    /\ UNCHANGED <<slot, est, pq, counter, signed, otherD>>

\* variant: the call returns with the first result received
DrainReturnEarly ==
    /\ pq.pc = "collect"
    /\ pq.received >= 1
    /\ pq' = [pq EXCEPT !.pc = "done", !.res = "ok"]
    /\ UNCHANGED <<slot, est, tasks, counter, signed, otherD>>

\* lines 587-622: every chunk task has sent and dropped its sender
DrainReturn ==
    /\ pq.pc = "collect"
    /\ \A k \in DOMAIN tasks : tasks[k].pc = "done"
    /\ pq' = [pq EXCEPT !.pc = "done", !.res = "ok"]
    /\ UNCHANGED <<slot, est, tasks, counter, signed, otherD>>

NextDrain ==
    \/ DrainTick
    \/ DrainStart
    \/ DrainReturn
    \/ \E k \in DOMAIN tasks : TaskAcquire(k)
    \/ \E k \in DOMAIN tasks : TaskIterate(k)
    \/ \E k \in DOMAIN tasks : TaskCollect(k)
    \/ \E k \in DOMAIN tasks : \E b \in DOMAIN tasks[k].batches : BatchAcquire(k, b)
    \/ \E k \in DOMAIN tasks : \E b \in DOMAIN tasks[k].batches : CheckEligibility(k, b)
    \/ \E k \in DOMAIN tasks : \E b \in DOMAIN tasks[k].batches : CheckActivePhase(k, b)
    \/ \E k \in DOMAIN tasks : \E b \in DOMAIN tasks[k].batches : SubmitTransaction(k, b)
    \/ \E k \in DOMAIN tasks : \E b \in DOMAIN tasks[k].batches : Retry(k, b)

SpecDrain == InitDrain /\ [][NextDrain]_vars

(***************************************************************************)
(* Properties of one process_queue call.                                   *)
(***************************************************************************)
\* the batch tasks the call has spawned so far: <<chunk task, batch task>>
BatchIds ==
    { x \in (DOMAIN tasks) \X (1 .. MaxDrainItems) : x[2] \in DOMAIN tasks[x[1]].batches }

Batches == { tasks[x[1]].batches[x[2]] : x \in BatchIds }

\* batch tasks of the whole call that hold a permit
AllBatchesInFlight == { x \in BatchIds : x[2] \in BatchesInFlight(x[1]) }

\* C4: the ProcessedCounter of the epoch is incremented exactly once for each
\* batch whose transaction was confirmed, also after failed attempts; a batch
\* skipped as not eligible or failing on every attempt never increments it.
C4_IncrementedOncePerConfirmedBatch ==
    /\ \A r \in Batches :
         /\ r.incs = r.confirms
         /\ r.incs = (IF r.result = "some" THEN 1 ELSE 0)
    /\ counter[pq.epoch] =
         Cardinality({ x \in BatchIds : tasks[x[1]].batches[x[2]].confirms >= 1 })

\* two batches are counted, one of them confirmed on a retry
C4_Witness ==
    /\ counter[pq.epoch] = 2
    /\ \E r \in Batches : r.result = "some" /\ r.retries >= 1 /\ r.incs = 1

\* C6: at any instant the batch-submission tasks in flight that belong to one
\* process_queue call are at most transaction_max_concurrent_batches.
C6_SubmissionTasksBoundedPerCall ==
    Cardinality(AllBatchesInFlight) <= config.transaction_max_concurrent_batches

\* C7: no transaction of a batch is submitted at a slot for which the forester
\* is not eligible for the batch's tree, even when the chain's slot advances
\* between the eligibility check and the submission.
C7_NoSubmissionAtIneligibleSlot ==
    \A r \in Batches : r.subs_inelig = 0

\* C7, as the code has it: every submission follows, in the same attempt, an
\* eligibility check that found the forester eligible at the slot the check
\* read; the slot may have advanced since.
C7_SubmissionFollowsEligibleCheck ==
    \A r \in Batches : r.subs_unchecked = 0

\* a transaction was submitted at a slot that is not eligible, after a check
\* that passed
C7_Witness ==
    \E r \in Batches : r.subs_inelig >= 1 /\ r.subs_unchecked = 0

\* C8: once the estimated slot is at or past active.end no work transaction of
\* the epoch is submitted, except by a task that had passed its checks before
\* that boundary.
C8_NoSubmissionPastEstimatedEnd ==
    \A r \in Batches : ~r.est_late

\* C8, as the code has it: once the chain's slot is at or past active.end no
\* work transaction of the epoch is submitted, except at most one per
\* submission task, which had passed its active-phase check before the boundary.
C8_NoSubmissionPastChainEnd ==
    \A r \in Batches : r.subs_late = 0 /\ r.subs_after_end <= 1

\* a task that passed its checks submits after the chain's boundary
C8_Witness ==
    \E r \in Batches : r.subs_after_end = 1

\* C10: the sleep before retry k+1 is 100 * 2^k ms plus a jitter in 0..=50 ms,
\* for k = 0 .. max_retries-1; there is no other delay, and none after the
\* final failure.
C10_RetryDelays ==
    \A r \in Batches :
       /\ r.sleeps <= config.max_retries
       /\ IF r.pc = "backoff"
          THEN /\ r.retries \in 0 .. config.max_retries - 1
               /\ r.sleeps = r.retries + 1
               /\ r.delay - BASE_RETRY_DELAY * (2 ^ r.retries) \in 0 .. MaxJitter
          ELSE /\ r.delay = 0
               /\ r.sleeps = r.retries

\* the second sleep of a task, with the largest jitter
C10_Witness ==
    \E r \in Batches :
       r.pc = "backoff" /\ r.retries = 1 /\ r.delay = 2 * BASE_RETRY_DELAY + MaxJitter

\* C11: a batch whose submission keeps failing is given up after max_retries
\* failures: its transaction is attempted at most max_retries times in total.
C11_AttemptedAtMostMaxRetries ==
    \A r \in Batches : r.subs <= config.max_retries

\* C11, as the code has it: max_retries counts the retries.  The transaction
\* is attempted once and retried at most max_retries times, max_retries + 1
\* attempts in total: before attempt k + 1 the task has slept k times, a task
\* that sleeps has failed fewer than max_retries times before, and the
\* failure of attempt max_retries + 1 is returned.
C11_AttemptedAtMostMaxRetriesPlusOne ==
    \A r \in Batches :
       /\ r.retries <= config.max_retries
       /\ r.subs <= r.retries + 1
       /\ r.pc = "backoff" => r.retries < config.max_retries

\* a batch is given up after max_retries + 1 submissions, all failed
C11_Witness ==
    \E r \in Batches :
       /\ r.pc = "done" /\ r.result = "err"
       /\ r.retries = config.max_retries
       /\ r.subs = config.max_retries + 1

\* C23: when the eligibility check of a batch returns not eligible, on the
\* first attempt or on a retry, the task returns None at once: nothing is
\* submitted in that attempt, there is no retry and no sleep, and a batch that
\* returned None has no confirmed transaction, no indexer update and no
\* increment of the counter.  A check goes on to the submission only at a
\* slot of the schedule that is eligible.
C23_NotEligibleReturnsNone ==
    /\ [](\A r \in Batches :
             (r.pc = "done" /\ r.result = "none") =>
                r.confirms = 0 /\ r.upds = 0 /\ r.incs = 0)
    /\ [][\A x \in BatchIds :
            LET r == tasks[x[1]].batches[x[2]]
                q == tasks'[x[1]].batches[x[2]]
            IN r.pc = "elig" =>
                  /\ q.pc \in {"elig", "active", "done"}
                  /\ q.pc = "active" => IsEligible(GetCurrentLightSlot(slot, pq.epoch))
                  /\ q.pc = "done" =>
                        /\ q.result \in {"none", "err", "panic"}
                        /\ q.subs = r.subs /\ q.retries = r.retries /\ q.sleeps = r.sleeps
                        /\ counter' = counter]_vars

\* a batch was skipped on a retry, after a submission that failed
C23_Witness ==
    \E r \in Batches : r.pc = "done" /\ r.result = "none" /\ r.retries >= 1 /\ r.subs >= 1

\* C24: a batch whose process_transaction_batch found the slot outside the
\* active phase is neither retried with backoff nor ended with an error.
C24_PhaseStopNotRetried ==
    \A r \in Batches : r.stop => (r.pc # "backoff" /\ r.result # "err")

\* C25: the eligibility check never panics: for a light slot outside the
\* tree's schedule it returns not eligible.
C25_OutOfRangeIsNotEligible ==
    \A r \in Batches : r.result # "panic"

\* C26: every submission of a batch follows an eligibility check of its own
\* attempt that returned eligible: a task at process_transaction_batch in
\* attempt k + 1 has passed k + 1 checks, one per attempt, and it has
\* submitted at most once per passed check.
C26_FreshCheckPerAttempt ==
    \A r \in Batches :
       /\ r.subs <= r.passed
       /\ r.pc \in {"active", "submit", "backoff"} => r.passed = r.retries + 1
       /\ r.pc \in {"active", "submit"} => r.chk_elig
       /\ r.pc = "elig" => r.passed = r.retries

\* a batch has submitted twice, each time after a check of its own
C26_Witness ==
    \E r \in Batches : r.subs = 2 /\ r.passed = 2 /\ r.retries = 1

\* C30: a process_queue call that reads a slot outside the active phase of its
\* epoch returns Ok without fetching items or spawning tasks; one that reads
\* a slot inside it for a queue of no tree of the epoch fails with
\* tree-not-found, again without fetching or spawning.
C30_DrainerEntryChecks ==
    /\ pq.phase = "false" =>
          pq.pc = "done" /\ pq.res = "ok" /\ ~pq.fetched /\ tasks = <<>>
    /\ (pq.phase = "true" /\ ~pq.known) =>
          pq.pc = "done" /\ pq.res = "tree_not_found" /\ ~pq.fetched /\ tasks = <<>>

\* a call in the active phase for a queue of no tree has returned
C30_Witness ==
    pq.phase = "true" /\ ~pq.known /\ pq.pc = "done" /\ pq.res = "tree_not_found"

\* work items the call has fetched: those of its first k chunks
RECURSIVE FetchedItems(_)
FetchedItems(k) == IF k = 0 THEN 0 ELSE tasks[k].len + FetchedItems(k - 1)

\* lines 582-583: total_chunks
TotalChunks(items) == (items + config.indexer_batch_size - 1) \div config.indexer_batch_size

\* C31: process_queue spawns ceil(items / indexer_batch_size) chunk tasks and
\* returns from its collect loop only when it has received the result of
\* every one of them, and it can return as soon as it has.
C31_ReturnsAfterEveryChunkReported ==
    /\ Len(tasks) = TotalChunks(FetchedItems(Len(tasks)))
    /\ pq.received = Cardinality({ k \in DOMAIN tasks : tasks[k].pc = "done" })
    /\ (pq.pc = "done" /\ tasks # <<>>) =>
          (pq.res = "ok" /\ pq.received = TotalChunks(FetchedItems(Len(tasks))))
    /\ (pq.pc = "collect" /\ pq.received = Len(tasks)) => ENABLED DrainReturn

\* a call of two chunks has returned; one of the chunks had reported an error
C31_Witness ==
    /\ pq.pc = "done" /\ Len(tasks) = 2 /\ pq.received = 2
    /\ tasks[1].res = "err" /\ tasks[2].res = "ok"

\* C32: the drainer does not retry: a chunk task never starts again, a batch
\* task that has ended keeps its result, and a call that has waited for its
\* chunk tasks returns Ok, also when a batch failed on every attempt.
C32_DrainerNeverRetries ==
    /\ [](\A k \in DOMAIN tasks : tasks[k].iter <= tasks[k].len)
    /\ [][/\ tasks # <<>> => Len(tasks') = Len(tasks)
          /\ \A k \in DOMAIN tasks :
               /\ tasks[k].pc = "done" => tasks'[k] = tasks[k]
               /\ tasks'[k].pc = "sem" => tasks[k].pc = "sem"
               /\ tasks'[k].iter >= tasks[k].iter
          /\ \A x \in BatchIds :
               LET r == tasks[x[1]].batches[x[2]]
                   q == tasks'[x[1]].batches[x[2]]
               IN r.pc = "done" => (q.pc = "done" /\ q.result = r.result /\ q.retries = r.retries)
          /\ (pq.pc = "collect" /\ pq'.pc = "done") => pq'.res = "ok"]_vars

\* the call has returned Ok; one of its batches had failed on every attempt
C32_Witness ==
    /\ pq.pc = "done" /\ pq.res = "ok"
    /\ \E r \in Batches : r.result = "err" /\ r.retries = config.max_retries /\ r.retries >= 1

(***************************************************************************)
(* SpecRollover: the rollover sweep that ends perform_active_work          *)
(* (epoch_manager.rs lines 454-465) with is_tree_ready_for_rollover and    *)
(* the rollover of rollover/operations.rs.                                 *)
(***************************************************************************)
\* u64::MAX, the rolledover_slot of a tree that is not rolled over, at the
\* width of the model's integers
U64_MAX == 2147483647

HEIGHT == 26

\* the rollover_threshold values (percent) and the rolledover_slot values of
\* the accounts the sweep reads
RolloverThresholds == {95, 100}

RolledoverSlots == {0, U64_MAX}

TreeTypes == {"State", "Address"}

\* lines 67-69, 93-95: ((1 << height) * rollover_threshold / 100) as usize, in
\* u64.  The product is split at 100 to stay inside the model's integers:
\* (100 q + r) * t / 100 = q * t + (r * t) / 100.
Threshold(rollover_threshold) ==
    LET q == (2 ^ HEIGHT) \div 100
        r == (2 ^ HEIGHT) % 100
    IN q * rollover_threshold + (r * rollover_threshold) \div 100

\* the next_index values the sweep may read: empty, around the thresholds,
\* 96 percent, full
NextIndexes ==
    {0, 2 ^ HEIGHT} \cup { Threshold(t) + d : t \in RolloverThresholds \cup {96}, d \in {-1, 0} }

\* variant: the rolledover_slot is not looked at
ReadyByIndexAlone(account, next_index) ==
    next_index >= Threshold(account.rollover_threshold)

\* lines 57-60, 83-86
IsAlreadyRolledOver(account) == account.rolledover_slot # U64_MAX

\* is_tree_ready_for_rollover, once the account is read; next_index is the
\* tree's, read only when the account is not rolled over
IsTreeReadyForRollover(account, next_index) ==
    IF IsAlreadyRolledOver(account) THEN FALSE
    ELSE next_index >= Threshold(account.rollover_threshold)

InitRollover ==
    /\ sweep = [NoSweep EXCEPT !.pc = "check", !.tree = 1]
    /\ slot = 0 /\ est = 0
    /\ mon = [last_epoch |-> -1, target |-> 0, retried |-> FALSE, exited |-> TRUE]
    /\ chan = <<>>
    /\ run_pc = "loop"
    /\ ctl = <<>>
    /\ counter = [e \in Epochs |-> 0]
    /\ signed = [e \in Epochs |-> 0]
    /\ reports = <<>>
    /\ drains = <<>>
    /\ config = EpochConfig
    /\ pq = NoCall /\ tasks = <<>> /\ schedule = <<>>
    /\ tk = NoTasks /\ mutex = "none" /\ pool = 0
    /\ svc = NoService /\ ck = NoChunks /\ iq = NoItems /\ esc = NoEscrow

\* the loop goes on to the next tree, or is over
NextTree(sw) ==
    IF sw.tree < NumTrees THEN [sw EXCEPT !.tree = @ + 1, !.pc = "check"]
    ELSE [sw EXCEPT !.pc = "done"]

\* lines 455-462 with is_tree_ready_for_rollover: a connection, the account
\* (`?` on the error, unwrap on None), the check
CheckTree ==
    /\ sweep.pc = "check"
    /\ \/ sweep' = [sweep EXCEPT !.pc = "error"]
       \/ sweep' = [sweep EXCEPT !.pc = "panic"]
       \/ \E ty \in TreeTypes, rs \in RolledoverSlots, t \in RolloverThresholds, ni \in NextIndexes :
            LET account == [rolledover_slot |-> rs, rollover_threshold |-> t]
                read == ~IsAlreadyRolledOver(account)
                ready == IsTreeReadyForRollover(account, ni)
                rec == [tree_type |-> ty, account |-> account, index_read |-> read,
                        next_index |-> IF read THEN ni ELSE -1, ready |-> ready,
                        attempted |-> FALSE, tx |-> "none", signers |-> {},
                        rolled |-> FALSE, informed |-> FALSE]
                sw == [sweep EXCEPT !.checked = Append(@, rec)]
            IN sweep' = IF ready THEN [sw EXCEPT !.pc = "rollover"] ELSE NextTree(sw)
    /\ UNCHANGED otherR

\* accounts the instructions of the rollover transaction create:
\* operations.rs lines 251-264 (Address), 308-333 (State)
CreatedAccounts(tree_type) ==
    IF tree_type = "State" THEN {"new_queue", "new_tree", "new_cpi_context"}
    ELSE {"new_queue", "new_tree"}

\* operations.rs lines 166-171 (State), 219-224 (Address): the keypairs handed
\* to Transaction::new_signed_with_payer
Signers(tree_type) == {"payer", "new_queue", "new_tree"}

\* a transaction is signed and taken by the ledger only with the signature of
\* every account it creates
FullySigned(created, signers) == created \subseteq signers

\* variant: the indexer is told whatever the transaction returned
InformedAlways(tx) == TRUE

\* operations.rs lines 123-139, 190-197: `.await?` on the rollover
\* transaction comes before indexer.lock()
Informed(tx) == tx = "ok"

\* line 463 with perform_rollover and rollover_{state,address}_merkle_tree: a
\* connection (`?`), the instructions and the blockhash (unwrap), the
\* rollover transaction signed and sent, then the indexer is told of the new
\* accounts; a failed rollover is logged.  Short of a signer the transaction
\* is not complete: new_signed_with_payer panics, or the ledger rejects it.
PerformRollover ==
    /\ sweep.pc = "rollover"
    /\ LET i == Len(sweep.checked)
           ty == sweep.checked[i].tree_type
           built == [sweep EXCEPT !.checked[i].attempted = TRUE,
                                  !.checked[i].signers = Signers(ty)]
           sent(tx) == NextTree([built EXCEPT !.checked[i].tx = tx,
                                              !.checked[i].rolled = (tx = "ok"),
                                              !.checked[i].informed = Informed(tx)])
       IN \/ sweep' = [sweep EXCEPT !.pc = "error"]
          \/ sweep' = [sweep EXCEPT !.pc = "panic", !.checked[i].attempted = TRUE]
          \/ /\ ~FullySigned(CreatedAccounts(ty), Signers(ty))
             /\ sweep' = [built EXCEPT !.pc = "panic"]
          \/ sweep' = sent("failed")
          \/ /\ FullySigned(CreatedAccounts(ty), Signers(ty))
             /\ sweep' = sent("ok")
    /\ UNCHANGED otherR

NextRollover == CheckTree \/ PerformRollover

SpecRollover == InitRollover /\ [][NextRollover]_vars

(***************************************************************************)
(* Properties of the rollover sweep.                                       *)
(***************************************************************************)
\* C9: a rollover is attempted for a tree only when, at the capacity check,
\* its rolledover_slot is u64::MAX and its next_index is at least
\* (2^26 * rollover_threshold) / 100; for a tree already rolled over the check
\* returns not ready without reading next_index.
C9_RolloverOnlyWhenReady ==
    \A i \in DOMAIN sweep.checked :
       LET r == sweep.checked[i]
           t == r.account.rollover_threshold
       IN /\ (r.attempted \/ (i = Len(sweep.checked) /\ sweep.pc = "rollover")) =>
                /\ r.account.rolledover_slot = U64_MAX
                /\ r.index_read
                /\ r.next_index >= 671088 * t + (64 * t) \div 100
          /\ r.account.rolledover_slot # U64_MAX => (~r.ready /\ ~r.index_read)

\* C18: in the rollover sweep an error of the capacity check or of the
\* rollover of one tree is only logged: the sweep goes on with the remaining
\* trees and perform_active_work returns Ok, never an error.
C18_SweepErrorsOnlyLogged ==
    sweep.pc \notin {"error", "panic"}

\* a rollover was attempted for a tree exactly at its threshold, and a tree
\* already rolled over was passed by
C9_Witness ==
    \E i \in DOMAIN sweep.checked : \E j \in DOMAIN sweep.checked :
       /\ sweep.checked[i].attempted
       /\ sweep.checked[i].next_index = Threshold(sweep.checked[i].account.rollover_threshold)
       /\ sweep.checked[j].account.rolledover_slot # U64_MAX
       /\ ~sweep.checked[j].ready

\* C34: the indexer is told of a new tree and queue exactly when the rollover
\* transaction succeeded; when the transaction fails nothing is added to the
\* indexer and the step ends in the sweep going on to its next tree or
\* finishing, not in an error.
C34_IndexerInformedIffRolledOver ==
    /\ [](\A i \in DOMAIN sweep.checked :
             LET r == sweep.checked[i]
             IN /\ r.informed <=> r.tx = "ok"
                /\ r.informed <=> r.rolled
                /\ r.tx # "none" => r.attempted)
    /\ [][\A i \in DOMAIN sweep.checked :
            (sweep.checked[i].tx = "none" /\ sweep'.checked[i].tx = "failed") =>
               /\ sweep'.pc \in {"check", "done"}
               /\ sweep'.pc = "check" <=> i < NumTrees
               /\ ~sweep'.checked[i].informed]_vars

\* the rollover of the first tree failed and that of the second succeeded
C34_Witness ==
    /\ Len(sweep.checked) = 2 /\ sweep.pc = "done"
    /\ sweep.checked[1].tx = "failed" /\ ~sweep.checked[1].informed
    /\ sweep.checked[2].tx = "ok" /\ sweep.checked[2].informed

\* C39: every account the rollover transaction creates has its keypair among
\* the signers of the transaction.
C39_CreatedAccountsSign ==
    \A i \in DOMAIN sweep.checked :
       sweep.checked[i].signers # {} =>
          CreatedAccounts(sweep.checked[i].tree_type) \subseteq sweep.checked[i].signers

(***************************************************************************)
(* SpecPool: the RPC connections and the indexer's Mutex, as one           *)
(* process_queue call, its chunk task, that task's batch task and a        *)
(* rollover sweep take and release them.                                   *)
(***************************************************************************)
MaxPool == 3        \* connections of the RPC pool
MaxBatchItems == 2  \* (work item, proof) pairs of the batch task

\* rpc_pool.get_connection() has handed out one more connection to the task
Connect(r, pc) == [r EXCEPT !.pc = pc, !.conns = @ + 1]

\* the task has returned res; what it held went back when it left the scope
Ended(res) == [NoTask EXCEPT !.pc = "done", !.res = res]

\* the task has returned res and keeps the record of what it did
EndedWith(r, res) == [r EXCEPT !.pc = "done", !.res = res, !.conns = 0]

\* variant: the guard is kept
KeepGuard(m, t) == m

\* drop(indexer), or the end of the statement that took the guard
DropGuard(m, t) == IF m = t THEN "none" ELSE m

InitPool ==
    /\ pool \in 1 .. MaxPool
    /\ svc = NoService /\ ck = NoChunks /\ iq = NoItems /\ esc = NoEscrow
    /\ mutex = "none"
    /\ tk = [NoTasks EXCEPT !["queue"].pc = "connect",
                            !["sweep"] = [NoTask EXCEPT !.pc = "connect", !.n = NumTrees]]
    /\ sweep = NoSweep
    /\ slot = 0 /\ est = 0
    /\ mon = [last_epoch |-> -1, target |-> 0, retried |-> FALSE, exited |-> TRUE]
    /\ chan = <<>>
    /\ run_pc = "loop"
    /\ ctl = <<>>
    /\ counter = [e \in Epochs |-> 0]
    /\ signed = [e \in Epochs |-> 0]
    /\ reports = <<>>
    /\ drains = <<>>
    /\ config = EpochConfig
    /\ pq = NoCall /\ tasks = <<>> /\ schedule = <<>>

\* the pool hands task t a connection it has
Acquire(t, from, to) ==
    /\ tk[t].pc = from
    /\ pool > 0
    /\ tk' = [tk EXCEPT ![t] = Connect(@, to)]
    /\ pool' = pool - 1
    /\ UNCHANGED <<mutex, otherP>>

\* a get_connection of task t: Err, or a connection once the pool has one
GetConnection(t, from, to) ==
    \/ /\ tk[t].pc = from
       /\ tk' = [tk EXCEPT ![t] = EndedWith(@, "err")]
       /\ pool' = pool + tk[t].conns
       /\ UNCHANGED <<mutex, otherP>>
    \/ Acquire(t, from, to)

\* indexer.lock().await of task t
LockIndexer(t, from, to) ==
    /\ tk[t].pc = from
    /\ mutex = "none"
    /\ mutex' = t
    /\ tk' = [tk EXCEPT ![t].pc = to]
    /\ UNCHANGED <<pool, otherP>>

\* process_queue line 500
QueueConnect == GetConnection("queue", "connect", "fetch")

\* process_queue lines 501-576: slot, active-phase check, tree, fetch; with
\* items, the chunk task is spawned
QueueFetch ==
    /\ tk["queue"].pc = "fetch"
    /\ \/ \E res \in {"err", "ok"} :
            /\ tk' = [tk EXCEPT !["queue"] = Ended(res)]
            /\ pool' = pool + tk["queue"].conns
       \/ /\ tk' = [tk EXCEPT !["queue"].pc = "collect",
                              !["work"] = [NoTask EXCEPT !.pc = "connect"]]
          /\ UNCHANGED pool
    /\ UNCHANGED <<mutex, otherP>>

\* process_queue lines 587-622: the chunk task has reported; rpc leaves scope
QueueReturn ==
    /\ tk["queue"].pc = "collect"
    /\ tk["work"].pc = "done"
    /\ tk' = [tk EXCEPT !["queue"] = Ended("ok")]
    /\ pool' = pool + tk["queue"].conns
    /\ UNCHANGED <<mutex, otherP>>

\* process_work_items line 669
WorkConnect == GetConnection("work", "connect", "slot")

\* process_work_items lines 670-674
WorkSlot ==
    /\ tk["work"].pc = "slot"
    /\ \/ /\ tk' = [tk EXCEPT !["work"] = Ended("err")]
          /\ pool' = pool + tk["work"].conns
       \/ /\ tk' = [tk EXCEPT !["work"].pc = "lock"]
          /\ UNCHANGED pool
    /\ UNCHANGED <<mutex, otherP>>

\* fetch_proofs_and_create_instructions lines 1024, 1060
WorkLock == LockIndexer("work", "lock", "proofs")

\* lines 1025-1028, 1061-1064: the batched request to the indexer, awaited
\* under the guard, then drop(indexer); `?` returns with the guard dropped
WorkProofs ==
    /\ tk["work"].pc = "proofs"
    /\ \/ /\ tk' = [tk EXCEPT !["work"] = Ended("err")]
          /\ pool' = pool + tk["work"].conns
          /\ mutex' = "none"
       \/ /\ tk' = [tk EXCEPT !["work"].pc = "build"]
          /\ mutex' = DropGuard(mutex, "work")
          /\ UNCHANGED pool
    /\ UNCHANGED otherP

\* lines 1029-1051, 1065-1085 and process_work_items 680-725: the instructions
\* are built and the batch task spawned
WorkBuild ==
    /\ tk["work"].pc = "build"
    /\ tk' = [tk EXCEPT !["work"].pc = "collect",
                        !["batch"] = [NoTask EXCEPT !.pc = "elig_connect", !.n = MaxBatchItems]]
    /\ UNCHANGED <<mutex, pool, otherP>>

\* process_work_items lines 730-766: the batch task has reported and is
\* joined; rpc leaves scope at the end of the iteration
WorkReturn ==
    /\ tk["work"].pc = "collect"
    /\ tk["batch"].pc = "done"
    /\ tk' = [tk EXCEPT !["work"] = Ended("ok")]
    /\ pool' = pool + tk["work"].conns
    /\ UNCHANGED <<mutex, otherP>>

\* check_eligibility line 791
BatchEligConnect == GetConnection("batch", "elig_connect", "elig_rpc")

\* check_eligibility lines 792-799: slot and ForesterEpochPda, then drop(rpc)
BatchEligRpc ==
    /\ tk["batch"].pc = "elig_rpc"
    /\ \/ tk' = [tk EXCEPT !["batch"] = EndedWith(@, "err")]
       \/ tk' = [tk EXCEPT !["batch"].pc = "elig", !["batch"].conns = 0]
    /\ pool' = pool + tk["batch"].conns
    /\ UNCHANGED <<mutex, otherP>>

\* check_eligibility lines 801-828 under with_retry lines 850-900
BatchElig ==
    /\ tk["batch"].pc = "elig"
    /\ \/ \E res \in {"err", "none"} : tk' = [tk EXCEPT !["batch"] = EndedWith(@, res)]
       \/ tk' = [tk EXCEPT !["batch"].pc = "tx_connect"]
    /\ UNCHANGED <<mutex, pool, otherP>>

\* process_transaction_batch line 916
BatchTxConnect == GetConnection("batch", "tx_connect", "tx_rpc")

\* lines 873-890 for the batch task: the attempt has failed
BatchRetryOrFail(r) ==
    IF MaxRetriesReached(r.tries)
    THEN EndedWith(r, "err")
    ELSE [r EXCEPT !.pc = "elig_connect", !.conns = 0, !.tries = @ + 1]

\* variant: update_indexer runs whatever process_transaction returned
BatchTxRpcUnawaited ==
    /\ tk["batch"].pc = "tx_rpc"
    /\ \/ tk' = [tk EXCEPT !["batch"].pc = "upd_lock", !["batch"].conns = 0]
       \/ tk' = [tk EXCEPT !["batch"].pc = "upd_lock", !["batch"].conns = 0,
                           !["batch"].confirmed = TRUE]
    /\ pool' = pool + tk["batch"].conns
    /\ UNCHANGED <<mutex, otherP>>

\* process_transaction_batch lines 917-935: slot, blockhash,
\* process_transaction (`?`), then drop(rpc); an error goes to the Err arm of
\* the retry loop
BatchTxRpc ==
    /\ tk["batch"].pc = "tx_rpc"
    /\ \/ tk' = [tk EXCEPT !["batch"] = BatchRetryOrFail(@)]
       \/ tk' = [tk EXCEPT !["batch"].pc = "upd_lock", !["batch"].conns = 0,
                           !["batch"].confirmed = TRUE]
    /\ pool' = pool + tk["batch"].conns
    /\ UNCHANGED <<mutex, otherP>>

\* update_indexer lines 946, 951
BatchUpdLock == LockIndexer("batch", "upd_lock", "upd")

\* update_indexer lines 947-948, 952-954: one update, drop(indexer), the next pair
BatchUpdate ==
    /\ tk["batch"].pc = "upd"
    /\ mutex' = DropGuard(mutex, "batch")
    /\ tk' = [tk EXCEPT !["batch"] =
                 IF @.n = 1 THEN EndedWith([@ EXCEPT !.ops = @ + 1, !.n = 0], "some")
                 ELSE [@ EXCEPT !.pc = "upd_lock", !.n = @ - 1, !.ops = @ + 1]]
    /\ UNCHANGED <<pool, otherP>>

\* the sweep goes on to its next tree, or is over; the connections of the
\* iteration left scope
SweepNext(r) ==
    IF r.n = 1 THEN Ended("ok") ELSE [r EXCEPT !.pc = "connect", !.conns = 0, !.n = @ - 1]

\* perform_active_work line 455
SweepConnect == GetConnection("sweep", "connect", "check")

\* lines 456-462 with is_tree_ready_for_rollover
SweepCheck ==
    /\ tk["sweep"].pc = "check"
    /\ \/ /\ tk' = [tk EXCEPT !["sweep"] = Ended("err")]
          /\ pool' = pool + tk["sweep"].conns
       \/ /\ tk' = [tk EXCEPT !["sweep"] = SweepNext(@)]
          /\ pool' = pool + tk["sweep"].conns
       \/ /\ tk' = [tk EXCEPT !["sweep"].pc = "connect2"]
          /\ UNCHANGED pool
    /\ UNCHANGED <<mutex, otherP>>

\* perform_rollover line 1089, under line 463
SweepConnect2 == GetConnection("sweep", "connect2", "rollover")

\* perform_rollover lines 1090-1118 with the rollover transaction of
\* rollover_{state,address}_merkle_tree: failed, it is logged
SweepRollover ==
    /\ tk["sweep"].pc = "rollover"
    /\ \/ /\ tk' = [tk EXCEPT !["sweep"] = SweepNext(@)]
          /\ pool' = pool + tk["sweep"].conns
       \/ /\ tk' = [tk EXCEPT !["sweep"].pc = "add_lock"]
          /\ UNCHANGED pool
    /\ UNCHANGED <<mutex, otherP>>

\* operations.rs lines 139, 193: indexer.lock().await
SweepAddLock == LockIndexer("sweep", "add_lock", "add")

\* operations.rs lines 139, 193-197: the new accounts are added, the guard
\* dropped at the end of the statement
SweepAdd ==
    /\ tk["sweep"].pc = "add"
    /\ mutex' = DropGuard(mutex, "sweep")
    /\ tk' = [tk EXCEPT !["sweep"] = SweepNext(@)]
    /\ pool' = pool + tk["sweep"].conns
    /\ UNCHANGED otherP

NextPool ==
    \/ QueueConnect \/ QueueFetch \/ QueueReturn
    \/ WorkConnect \/ WorkSlot \/ WorkLock \/ WorkProofs \/ WorkBuild \/ WorkReturn
    \/ BatchEligConnect \/ BatchEligRpc \/ BatchElig
    \/ BatchTxConnect \/ BatchTxRpc \/ BatchUpdLock \/ BatchUpdate
    \/ SweepConnect \/ SweepCheck \/ SweepConnect2 \/ SweepRollover
    \/ SweepAddLock \/ SweepAdd

SpecPool == InitPool /\ [][NextPool]_vars

(***************************************************************************)
(* FairPool: every task that can take its next step takes it, and the pool *)
(* and the Mutex serve their waiters whenever they can (both queue their   *)
(* waiters).  That a get_connection returns Err is the environment's:      *)
(* nothing forces it.                                                      *)
(***************************************************************************)
FairPool ==
    /\ SpecPool
    /\ WF_vars(QueueFetch) /\ WF_vars(QueueReturn)
    /\ WF_vars(WorkSlot) /\ WF_vars(WorkProofs) /\ WF_vars(WorkBuild) /\ WF_vars(WorkReturn)
    /\ WF_vars(BatchEligRpc) /\ WF_vars(BatchElig) /\ WF_vars(BatchTxRpc) /\ WF_vars(BatchUpdate)
    /\ WF_vars(SweepCheck) /\ WF_vars(SweepRollover) /\ WF_vars(SweepAdd)
    /\ SF_vars(WorkLock) /\ SF_vars(BatchUpdLock) /\ SF_vars(SweepAddLock)
    /\ SF_vars(Acquire("queue", "connect", "fetch"))
    /\ SF_vars(Acquire("work", "connect", "slot"))
    /\ SF_vars(Acquire("batch", "elig_connect", "elig_rpc"))
    /\ SF_vars(Acquire("batch", "tx_connect", "tx_rpc"))
    /\ SF_vars(Acquire("sweep", "connect", "check"))
    /\ SF_vars(Acquire("sweep", "connect2", "rollover"))

(***************************************************************************)
(* Properties of the pool and the Mutex.                                   *)
(***************************************************************************)
\* where a task awaits a call to the ledger's RPC
LedgerRpcPcs == {"fetch", "slot", "elig_rpc", "tx_rpc", "check", "rollover"}

\* where a task is inside one operation of the indexer
IndexerOpPcs == {"proofs", "upd", "add"}

\* C21: no task holds the indexer's Mutex while it awaits a ledger RPC call:
\* the holder is inside a single operation of the indexer, and not at an RPC
\* call, at the construction of instructions, at a get_connection or waiting
\* for a child task.
C21_NoLockAcrossRpc ==
    \A t \in TaskIds :
       mutex = t =>
          /\ tk[t].pc \in IndexerOpPcs
          /\ tk[t].pc \notin LedgerRpcPcs \cup {"build", "collect"}

\* the batch task holds the Mutex for its second update while the sweep
\* awaits its capacity check and wants the Mutex next
C21_Witness ==
    /\ mutex = "batch" /\ tk["batch"].n = 1
    /\ tk["sweep"].pc = "check"

\* C22: a pool connection is never held across multi-stage logic: no task
\* holds a connection while it waits for its child tasks, and none holds two.
C22_NoConnectionAcrossStages ==
    \A t \in TaskIds :
       /\ tk[t].conns <= 1
       /\ tk[t].pc = "collect" => tk[t].conns = 0

\* C33: the indexer is updated for a batch only after the batch's transaction
\* was confirmed, one (work item, proof) pair per acquisition of the Mutex;
\* a batch that ended with an error or was skipped has updated nothing, and a
\* batch that ended with a signature, after retries or not, has updated each
\* of its pairs once.
C33_IndexerUpdatedAfterConfirm ==
    /\ [](LET b == tk["batch"]
          IN /\ (b.ops > 0 \/ b.pc \in {"upd_lock", "upd"}) => b.confirmed
             /\ (b.pc = "done" /\ b.res \in {"err", "none"}) => (b.ops = 0 /\ ~b.confirmed)
             /\ (b.pc = "done" /\ b.res = "some") => b.ops = MaxBatchItems
             /\ b.confirmed => b.ops + b.n = MaxBatchItems
             /\ b.tries <= config.max_retries)
    /\ [][tk'["batch"].ops # tk["batch"].ops =>
            /\ tk'["batch"].ops = tk["batch"].ops + 1
            /\ mutex = "batch" /\ mutex' = "none"]_vars

\* a batch confirmed on its second attempt has updated both of its pairs
C33_Witness ==
    /\ tk["batch"].pc = "done" /\ tk["batch"].res = "some"
    /\ tk["batch"].tries = 1 /\ tk["batch"].ops = MaxBatchItems

(***************************************************************************)
(* SpecService: run_service from its call to its return.  The results of   *)
(* get_connection, of EpochManager::new and of run are the inputs.         *)
(***************************************************************************)
MaxServiceRetries == 8   \* config.max_retries of the service is 0 .. this

INITIAL_RETRY_DELAY == 1

MAX_RETRY_DELAY == 30

\* what the steps of run_service leave alone
otherS == <<core, ck, iq, esc>>

InitService ==
    /\ \E m \in 0 .. MaxServiceRetries :
         svc = [pc |-> "start", max_retries |-> m, retry_count |-> 0,
                retry_delay |-> INITIAL_RETRY_DELAY, sleeps |-> <<>>,
                failures |-> 0, res |-> "none", by |-> "none"]
    /\ slot = 0 /\ est = 0
    /\ mon = [last_epoch |-> -1, target |-> 0, retried |-> FALSE, exited |-> TRUE]
    /\ chan = <<>>
    /\ run_pc = "loop"
    /\ ctl = <<>>
    /\ counter = [e \in Epochs |-> 0]
    /\ signed = [e \in Epochs |-> 0]
    /\ reports = <<>>
    /\ drains = <<>>
    /\ config = EpochConfig
    /\ pq = NoCall /\ tasks = <<>> /\ schedule = <<>> /\ sweep = NoSweep
    /\ tk = NoTasks /\ mutex = "none" /\ pool = 0
    /\ ck = NoChunks /\ iq = NoItems /\ esc = NoEscrow

\* run_service has returned res from the place `by`
ServiceReturned(r, res, by) == [r EXCEPT !.pc = "returned", !.res = res, !.by = by]

\* lines 1143-1146: a connection (`?`) and fetch_trees
ServiceStart ==
    /\ svc.pc = "start"
    /\ \/ svc' = ServiceReturned(svc, "err", "connection")
       \/ svc' = [svc EXCEPT !.pc = "loop"]
    /\ UNCHANGED otherS

\* line 1187
NextRetryDelay(retry_delay) == Min(retry_delay * 2, MAX_RETRY_DELAY)

\* lines 1148-1199: one turn of the loop: EpochManager::new, then the manager
\* runs, or the failure is counted and the loop sleeps or gives up; line
\* 1202 once the loop has ended
ServiceLoop ==
    /\ svc.pc = "loop"
    /\ IF svc.retry_count < svc.max_retries
       THEN \/ svc' = [svc EXCEPT !.pc = "running"]
            \/ LET failed == [svc EXCEPT !.retry_count = @ + 1, !.failures = @ + 1]
               IN svc' = IF failed.retry_count < failed.max_retries
                         THEN [failed EXCEPT !.pc = "sleep"]
                         ELSE ServiceReturned(failed, "err", "retries")
       ELSE svc' = ServiceReturned(svc, "err", "loop_end")
    /\ UNCHANGED otherS

\* lines 1185-1187: sleep(retry_delay), then the delay doubles up to the cap
ServiceSleep ==
    /\ svc.pc = "sleep"
    /\ svc' = [svc EXCEPT !.pc = "loop", !.sleeps = Append(@, svc.retry_delay),
                          !.retry_delay = NextRetryDelay(@)]
    /\ UNCHANGED otherS

\* lines 1168-1169: epoch_manager.run() has returned; its result is that of
\* the service
ServiceRun ==
    /\ svc.pc = "running"
    /\ \E res \in {"ok", "err"} : svc' = ServiceReturned(svc, res, "run")
    /\ UNCHANGED otherS

\* lines 1170-1173: the shutdown signal
ServiceShutdown ==
    /\ svc.pc = "running"
    /\ svc' = ServiceReturned(svc, "ok", "shutdown")
    /\ UNCHANGED otherS

NextService ==
    \/ ServiceStart
    \/ ServiceLoop
    \/ ServiceSleep
    \/ ServiceRun
    \/ ServiceShutdown

SpecService == InitService /\ [][NextService]_vars

\* C35: run_service sleeps min(2^k, 30) seconds after its k-th failed
\* construction, counted from 0 (1, 2, 4, ..., 30); it returns an error only
\* after max_retries failed constructions; and the shutdown signal, with the
\* manager running, makes it return Ok.
C35_ServiceRetriesThenFails ==
    /\ \A k \in DOMAIN svc.sleeps : svc.sleeps[k] = Min(2 ^ (k - 1), MAX_RETRY_DELAY)
    /\ (svc.pc = "returned" /\ svc.res = "err") => svc.failures = svc.max_retries
    /\ (svc.pc = "returned" /\ svc.by = "shutdown") => svc.res = "ok"

(***************************************************************************)
(* SpecChunks: the initial drain of one epoch as a function of the items   *)
(* of the queues and of the batch sizes: which items go into which         *)
(* transaction, when the forester is eligible and every submission         *)
(* succeeds.  The order of the tasks does not matter to that, so the       *)
(* chunks are taken one after the other.                                   *)
(***************************************************************************)
MaxQueueItems == 15   \* items each queue holds is 0 .. this

IndexerBatchSizes == {1, 4, 10}

TransactionBatchSizes == {1, 3, 5}

\* what the chunking leaves alone
otherK == <<slot, est, mon, chan, run_pc, ctl, signed, drains, pq, tasks, schedule, sweep,
            tk, mutex, pool, svc, iq, esc>>

InitChunks ==
    /\ \E n \in 0 .. MaxQueueItems :
         ck = [pc |-> "fetch", n |-> n, tree |-> 1, chunk |-> 0, iter |-> 0, txs |-> <<>>]
    /\ \E a \in IndexerBatchSizes : \E b \in TransactionBatchSizes :
         config = [EpochConfig EXCEPT !.indexer_batch_size = a, !.transaction_batch_size = b]
    /\ counter = [e \in Epochs |-> 0]
    /\ reports = <<>>
    /\ slot = 0 /\ est = 0
    /\ mon = [last_epoch |-> -1, target |-> 0, retried |-> FALSE, exited |-> TRUE]
    /\ chan = <<>>
    /\ run_pc = "loop"
    /\ ctl = <<>>
    /\ signed = [e \in Epochs |-> 0]
    /\ drains = <<>>
    /\ pq = NoCall /\ tasks = <<>> /\ schedule = <<>> /\ sweep = NoSweep
    /\ tk = NoTasks /\ mutex = "none" /\ pool = 0
    /\ svc = NoService /\ iq = NoItems /\ esc = NoEscrow

\* process_queues lines 487-493 with process_queue line 512: the items of the
\* queue of the next tree are fetched; after the last tree the drain is over
ChunkFetch ==
    /\ ck.pc = "fetch"
    /\ ck' = IF ck.tree > NumTrees THEN [ck EXCEPT !.pc = "report"]
             ELSE IF ck.n = 0 THEN [ck EXCEPT !.tree = @ + 1]
             ELSE [ck EXCEPT !.pc = "chunk", !.chunk = 1, !.iter = 0]
    /\ UNCHANGED <<config, counter, reports, otherK>>

\* the transactions of iteration i of chunk k: one per chunk of
\* all_instructions.chunks(transaction_batch_size) (lines 682-723), one
\* instruction per item (lines 1029-1050, 1065-1083)
BatchesOf(tree, k, i, m) ==
    [b \in 1 .. NumBatches(m) |->
        LET lo == (k - 1) * config.indexer_batch_size + i * config.transaction_batch_size
                  + (b - 1) * config.transaction_batch_size + 1
        IN [tree |-> tree, lo |-> lo,
            hi |-> lo + Min(config.transaction_batch_size,
                            m - (b - 1) * config.transaction_batch_size) - 1]]

\* lines 864-871 for the batches of one iteration: each confirmed batch
\* increments the counter of the epoch once
IncrementPerBatch(cnt, e, txs) == [cnt EXCEPT ![e] = @ + Len(txs)]

\* process_queue lines 528-575 and process_work_items lines 659-725: one
\* iteration of the loop of process_work_items over chunk k of the queue,
\* or the end of the chunk
ChunkIterate ==
    /\ ck.pc = "chunk"
    /\ LET len == ChunkLen(ck.n, ck.chunk)
           m == TxChunkLen(len, ck.iter)
           new == BatchesOf(ck.tree, ck.chunk, ck.iter, m)
       IN IF m > 0
          THEN /\ ck' = [ck EXCEPT !.iter = @ + 1, !.txs = @ \o new]
               /\ counter' = IncrementPerBatch(counter, 0, new)
          ELSE /\ ck' = IF ck.chunk < NumChunks(ck.n)
                        THEN [ck EXCEPT !.chunk = @ + 1, !.iter = 0]
                        ELSE [ck EXCEPT !.pc = "fetch", !.tree = @ + 1]
               /\ UNCHANGED counter
    /\ UNCHANGED <<config, reports, otherK>>

\* report_work lines 987-995
ChunkReport ==
    /\ ck.pc = "report"
    /\ reports' = Append(reports, [epoch |-> 0, processed_items |-> GetProcessedItemsCount(0)])
    /\ ck' = [ck EXCEPT !.pc = "done"]
    /\ UNCHANGED <<config, counter, otherK>>

NextChunks == ChunkFetch \/ ChunkIterate \/ ChunkReport

SpecChunks == InitChunks /\ [][NextChunks]_vars

\* transactions that carry item x of the queue of tree t
TxsWith(t, x) ==
    { j \in DOMAIN ck.txs : ck.txs[j].tree = t /\ ck.txs[j].lo <= x /\ x <= ck.txs[j].hi }

TxsOfTree(t) == { j \in DOMAIN ck.txs : ck.txs[j].tree = t }

\* C36: no transaction carries more than transaction_batch_size items and
\* no item is in two transactions; when the drain is over every item of
\* every queue is in exactly one transaction; with indexer_batch_size 10,
\* transaction_batch_size 5 and 15 items per queue each tree has 3
\* transactions and the WorkReport has processed_items = 3 per tree: 6 for
\* two trees.
C36_EveryItemInOneTransaction ==
    /\ \A j \in DOMAIN ck.txs :
         /\ ck.txs[j].hi - ck.txs[j].lo + 1 \in 1 .. config.transaction_batch_size
         /\ ck.txs[j].lo >= 1 /\ ck.txs[j].hi <= ck.n
    /\ \A t \in 1 .. NumTrees : \A x \in 1 .. ck.n : Cardinality(TxsWith(t, x)) <= 1
    /\ ck.pc \in {"report", "done"} =>
          \A t \in 1 .. NumTrees : \A x \in 1 .. ck.n : Cardinality(TxsWith(t, x)) = 1
    /\ (/\ ck.pc = "done" /\ ck.n = 15
        /\ config.indexer_batch_size = 10 /\ config.transaction_batch_size = 5) =>
          /\ \A t \in 1 .. NumTrees : Cardinality(TxsOfTree(t)) = 3
          /\ reports = <<[epoch |-> 0, processed_items |-> 3 * NumTrees]>>
          /\ NumTrees = 2 => reports[1].processed_items = 6

\* the drain of two queues of 15 items with batch sizes 10 and 5 is reported
C36_Witness ==
    /\ ck.pc = "done" /\ ck.n = 15
    /\ config.indexer_batch_size = 10 /\ config.transaction_batch_size = 5
    /\ Len(ck.txs) = 6 /\ Len(reports) = 1

(***************************************************************************)
(* SpecItems: the items of one queue on the ledger and the detached        *)
(* process_queue calls one controller spawns for the updates of that       *)
(* queue, in the active phase with the forester eligible.                  *)
(***************************************************************************)
MaxQueued == 2   \* items that enter the queue

QueueItems == 1 .. MaxQueued

\* what the queue and its calls leave alone
otherI == <<core, svc, ck, esc>>

NoItemCall == [pc |-> "idle", items |-> {}, inflight |-> {}, confirmed |-> {}]

InitItems ==
    /\ iq = [queue |-> {}, entered |-> {}, calls |-> [d \in 1 .. MaxUpdates |-> NoItemCall]]
    /\ slot = 0 /\ est = 0
    /\ mon = [last_epoch |-> -1, target |-> 0, retried |-> FALSE, exited |-> TRUE]
    /\ chan = <<>>
    /\ run_pc = "loop"
    /\ ctl = <<>>
    /\ counter = [e \in Epochs |-> 0]
    /\ signed = [e \in Epochs |-> 0]
    /\ reports = <<>>
    /\ drains = <<>>
    /\ config = EpochConfig
    /\ pq = NoCall /\ tasks = <<>> /\ schedule = <<>> /\ sweep = NoSweep
    /\ tk = NoTasks /\ mutex = "none" /\ pool = 0
    /\ svc = NoService /\ ck = NoChunks /\ esc = NoEscrow

\* a user's transaction puts an item into the queue; the change feed tells
\* the controller, whose react loop (lines 419-431) spawns a process_queue
ItemEnters(x, d) ==
    /\ x \notin iq.entered
    /\ iq.calls[d].pc = "idle"
    /\ \A e \in 1 .. d - 1 : iq.calls[e].pc # "idle"
    /\ iq' = [iq EXCEPT !.queue = @ \cup {x}, !.entered = @ \cup {x},
                        !.calls[d].pc = "start"]
    /\ UNCHANGED otherI

\* fetch_work_items lines 625-643 under process_queue line 512: the items the
\* queue holds now
FetchWorkItems(queue) == queue

\* process_queue lines 500-516: the call fetches
ItemFetch(d) ==
    /\ iq.calls[d].pc = "start"
    /\ LET work_items == FetchWorkItems(iq.queue)
       IN iq' = IF work_items = {} THEN [iq EXCEPT !.calls[d].pc = "done"]
                ELSE [iq EXCEPT !.calls[d].pc = "work", !.calls[d].items = work_items]
    /\ UNCHANGED otherI

\* lines 916-934: the transaction of item x is sent
ItemSubmit(d, x) ==
    /\ iq.calls[d].pc = "work"
    /\ x \in iq.calls[d].items
    /\ iq' = [iq EXCEPT !.calls[d].items = @ \ {x}, !.calls[d].inflight = @ \cup {x}]
    /\ UNCHANGED otherI

\* the ledger processes the transaction of item x: it takes the item out of
\* the queue, or fails when the item is no longer there
ItemProcessed(d, x) ==
    /\ x \in iq.calls[d].inflight
    /\ iq' = [iq EXCEPT !.queue = @ \ {x},
                        !.calls[d].inflight = @ \ {x},
                        !.calls[d].confirmed = IF x \in iq.queue THEN @ \cup {x} ELSE @]
    /\ UNCHANGED otherI

\* lines 587-622
ItemReturn(d) ==
    /\ iq.calls[d].pc = "work"
    /\ iq.calls[d].items = {} /\ iq.calls[d].inflight = {}
    /\ iq' = [iq EXCEPT !.calls[d].pc = "done"]
    /\ UNCHANGED otherI

NextItems ==
    \/ \E x \in QueueItems : \E d \in 1 .. MaxUpdates : ItemEnters(x, d)
    \/ \E d \in 1 .. MaxUpdates : ItemFetch(d)
    \/ \E d \in 1 .. MaxUpdates : \E x \in QueueItems : ItemSubmit(d, x)
    \/ \E d \in 1 .. MaxUpdates : \E x \in QueueItems : ItemProcessed(d, x)
    \/ \E d \in 1 .. MaxUpdates : ItemReturn(d)

SpecItems == InitItems /\ [][NextItems]_vars

\* C38: no item of the queue is in the transactions in flight of two
\* process_queue calls of the controller at the same time.
C38_NoItemInTwoTransactions ==
    \A d \in 1 .. MaxUpdates : \A e \in 1 .. MaxUpdates :
       d # e => iq.calls[d].inflight \cap iq.calls[e].inflight = {}

\* ---------------------------------------------------------------------
\* The escrow-close instruction of the verifier program
\* (anchor_programs/programs/verifier_program/src/escrow/close_escrow_state.rs).
\* process_close_escrow is a function of the two accounts, the signer and
\* the clock; InitEscrow draws them from bounded sets and the actions are
\* the steps of the function.  The lamport amounts are u64, scaled here to
\* the width U64_MODULUS; FEE_PER_INSTRUCTION and TIMEOUT_ESCROW come from
\* utils::config, scaled likewise.

FEE_PER_INSTRUCTION == 2
TIMEOUT_ESCROW == 2
U64_MODULUS == 64

MaxEscrowFee == 2
MaxInstructionIndex == 2
MaxEscrowSlot == 3
MaxExternalAmount == 2

ZeroKey == "zero"
\* a signer of the transaction holds the private key of its address:
\* the all-zero address has none
EscrowSigners == {"signing_address", "other"}

otherX == <<core, svc, ck, iq>>

InitEscrow ==
    /\ slot = 0 /\ est = 0
    /\ mon = [last_epoch |-> -1, target |-> 0, retried |-> FALSE, exited |-> TRUE]
    /\ chan = <<>>
    /\ run_pc = "loop"
    /\ ctl = <<>>
    /\ counter = [e \in Epochs |-> 0]
    /\ signed = [e \in Epochs |-> 0]
    /\ reports = <<>>
    /\ drains = <<>>
    /\ config = EpochConfig
    /\ pq = NoCall /\ tasks = <<>> /\ schedule = <<>> /\ sweep = NoSweep
    /\ tk = NoTasks /\ mutex = "none" /\ pool = 0
    /\ svc = NoService /\ ck = NoChunks /\ iq = NoItems
    /\ \E ext \in -1 .. MaxExternalAmount : \E idx \in 0 .. MaxInstructionIndex :
       \E cs \in 0 .. 1 : \E now \in 0 .. MaxEscrowSlot :
       \E sg \in EscrowSigners :
       \E rf \in 0 .. MaxEscrowFee : \E tf \in 0 .. MaxEscrowFee :
          esc = [pc |-> "start", ext_amount |-> ext,
                 current_instruction_index |-> idx,
                 creation_slot |-> cs, clock |-> now, signer |-> sg,
                 relayer_fee |-> rf, tx_fee |-> tf,
                 to_relayer |-> 0, to_user |-> 0,
                 underflow |-> FALSE, res |-> "none"]

EscrowReturned(r, res) == [r EXCEPT !.pc = "done", !.res = res]

\* lines 31-36
EscrowCheckDeposit ==
    /\ esc.pc = "start"
    /\ esc' = IF esc.ext_amount < 0
                THEN EscrowReturned(esc, "NotDeposit")
                ELSE [esc EXCEPT !.pc = "signer"]
    /\ UNCHANGED otherX

\* lines 39-41: the signer is compared with the verifier state's
\* signing address
TimeoutPending(index, creation_slot, now, signer) ==
    /\ index # 0
    /\ creation_slot + TIMEOUT_ESCROW > now
    /\ signer # ZeroKey

\* lines 39-46
EscrowCheckSigner ==
    /\ esc.pc = "signer"
    /\ esc' = IF /\ TimeoutPending(esc.current_instruction_index,
                                   esc.creation_slot, esc.clock, esc.signer)
                 /\ esc.signer # "signing_address"
                THEN EscrowReturned(esc, "NotTimedOut")
                ELSE [esc EXCEPT !.pc = "relayer"]
    /\ UNCHANGED otherX

\* line 51
TransferAmountRelayer(index) == (index * FEE_PER_INSTRUCTION) % U64_MODULUS

\* lines 51-58; sol_transfer fails or moves the lamports
EscrowPayRelayer ==
    /\ esc.pc = "relayer"
    /\ LET amount == TransferAmountRelayer(esc.current_instruction_index)
       IN \/ esc' = EscrowReturned(esc, "TransferFailed")
          \/ esc' = [esc EXCEPT !.pc = "user", !.to_relayer = amount]
    /\ UNCHANGED otherX

\* lines 62-63: relayer_fee + tx_fee - transfer_amount_relayer goes below
\* zero
Underflows(relayer_fee, tx_fee, relayer) == relayer_fee + tx_fee < relayer

\* lines 62-64, evaluated left to right in wrapping u64 arithmetic
TransferAmountUser(relayer_fee, tx_fee, relayer, ext) ==
    LET sum == (relayer_fee + tx_fee) % U64_MODULUS
        rest == (sum - relayer) % U64_MODULUS
    IN (rest + ext) % U64_MODULUS

\* lines 62-71.  An underflow of the subtraction panics in a build with
\* overflow checks and wraps in one without.
EscrowPayUser ==
    /\ esc.pc = "user"
    /\ LET under == Underflows(esc.relayer_fee, esc.tx_fee, esc.to_relayer)
           amount == TransferAmountUser(esc.relayer_fee, esc.tx_fee,
                                        esc.to_relayer, esc.ext_amount)
           r == [esc EXCEPT !.underflow = under]
       IN \/ /\ under
             /\ esc' = EscrowReturned(r, "panic")
          \/ esc' = EscrowReturned(r, "TransferFailed")
          \/ esc' = EscrowReturned([r EXCEPT !.to_user = amount], "ok")
    /\ UNCHANGED otherX

NextEscrow ==
    \/ EscrowCheckDeposit
    \/ EscrowCheckSigner
    \/ EscrowPayRelayer
    \/ EscrowPayUser

SpecEscrow == InitEscrow /\ [][NextEscrow]_vars

\* C40: process_close_escrow refuses a withdrawal with NotDeposit and,
\* while instructions have been executed and the timeout has not elapsed,
\* a signer other than the verifier state's signing address with
\* NotTimedOut; on success the relayer has received
\* current_instruction_index * FEE_PER_INSTRUCTION and the user
\* relayer_fee + tx_fee - relayer amount + external amount, the two adding
\* up to relayer_fee + tx_fee + external amount; and the computation of
\* the user's amount never underflows.
C40_CloseEscrowPayouts ==
    /\ ~esc.underflow
    /\ esc.pc = "done" =>
       /\ esc.ext_amount < 0 => esc.res = "NotDeposit"
       /\ ( /\ esc.ext_amount >= 0
            /\ esc.current_instruction_index # 0
            /\ esc.creation_slot + TIMEOUT_ESCROW > esc.clock
            /\ esc.signer # "signing_address" ) => esc.res = "NotTimedOut"
       /\ esc.res = "ok" =>
          /\ esc.to_relayer = esc.current_instruction_index * FEE_PER_INSTRUCTION
          /\ esc.to_user = esc.relayer_fee + esc.tx_fee - esc.to_relayer
                              + esc.ext_amount
          /\ esc.to_relayer + esc.to_user
                = esc.relayer_fee + esc.tx_fee + esc.ext_amount

\* C37: whatever the size of the pool, the process_queue call and the
\* rollover sweep eventually complete.
C37_DrainAndSweepComplete ==
    <>(tk["queue"].pc = "done" /\ tk["sweep"].pc = "done")

====
